---- MODULE Spec2Model ----
(***************************************************************************)
(* Virtual ECU with OTA update (vECU_project): the lifecycle loop of       *)
(* main(), the boot integrity check, the DoIP session engine               *)
(* (DoIPSession) and the firmware update pipeline, with the files they     *)
(* touch (nvram.dat, update.bin, the executable).                          *)
(*                                                                         *)
(* Two threads: the main thread (variable pc) and the single io_context    *)
(* thread, on which every completion handler of every session runs to      *)
(* completion before the next one starts.  One action of the network       *)
(* thread is one completion handler, with everything it calls.             *)
(***************************************************************************)
EXTENDS Integers, Sequences, FiniteSets, TLC

\* ------------------------------------------------------------------ bounds
\* frames dispatched over all sessions in one run
MaxFrames == 4
\* bytes accepted into update.bin (through one handle) in one run
MaxFileLen == 3
\* the number of times the process is started in the boot scenarios
MaxBoots == 2

\* ------------------------------------------------------- program constants
VEHICLE_ID_REQUEST == 4
VEHICLE_ANNOUNCEMENT == 5
DIAGNOSTIC == 32769
UDS_ROUTINE_CONTROL == 49
UDS_REQUEST_DOWNLOAD == 52
UDS_TRANSFER_DATA == 54
UDS_REQUEST_TRANSFER_EXIT == 55
UDS_ENTER_PROGRAMMING_SESSION == 65280
PROTOCOL_VERSION == 2
POSITIVE_RESPONSE == 64

\* the connections: Sessions are numbered in the order they are accepted
Sessions == {1, 2}
\* the connection of the scenarios with one client
OneClient == {1}

EcuState == {"BOOT", "APPLICATION", "UPDATE_PENDING", "BRICKED"}

\* std::optional<T>: the empty tuple, or a one-element tuple
nullopt == << >>
Some(v) == <<v>>

\* a file of the directory: absent, or present with a content
NoFile == << >>
File(c) == <<c>>

\* --------------------------------------------------------- integer widths
\* uint32_t as <<high 16 bits, low 16 bits>>
U32(n) == <<(n \div 65536) % 65536, n % 65536>>
U32Plus(a, b) ==
    LET lo == a[2] + b[2]
    IN  <<(a[1] + b[1] + (lo \div 65536)) % 65536, lo % 65536>>
U32Leq(a, b) == a[1] < b[1] \/ (a[1] = b[1] /\ a[2] <= b[2])
\* (size_t)(n - 2) truncated to 32 bits, n the payload size
SizeMinus2(n) == IF n >= 2 THEN U32(n - 2) ELSE U32Plus(<<65535, 65534>>, U32(n))

\* host byte order is little-endian: the struct overlay loads the wire bytes
\* low byte first, ntohs/ntohl swap them
ntohs(x) == (x % 256) * 256 + (x \div 256)
htons(x) == (x % 256) * 256 + (x \div 256)
ntohl(x) == <<ntohs(x[2]), ntohs(x[1])>>
htonl(x) == <<htons(x[2]), htons(x[1])>>
\* a 16/32-bit field of the packed struct, loaded from / stored to its bytes
Load16(b) == b[1] + 256 * b[2]
Load32(b) == <<Load16(<<b[3], b[4]>>), Load16(<<b[1], b[2]>>)>>
Store16(x) == <<x % 256, x \div 256>>
Store32(x) == Store16(x[2]) \o Store16(x[1])
\* ~x on a uint8_t
Inverse8(x) == 255 - x

\* ----------------------------------------------------------- Hash Utility
\* Contents of files are sequences over FileBytes.
FileBytes == {0, 1}
RECURSIVE ContentNumber(_)
ContentNumber(c) ==
    IF c = << >> THEN 0 ELSE (Head(c) + 1) + 3 * ContentNumber(Tail(c))
\* The digest function (EVP_sha256 in the source): a two-byte digest that is
\* injective on the contents of the model; the digest of the empty content
\* is e3 b0, the first bytes of SHA-256 of the empty string.
EVP_Digest(c) ==
    LET n == ContentNumber(c)
    IN  <<(227 + (n \div 256)) % 256, (176 + n) % 256>>
\* one digit of std::hex output (lowercase), as its character code
HexDigit(d) == IF d < 10 THEN 48 + d ELSE 87 + d
\* ss << std::hex << std::setw(2) << std::setfill('0') << (int)hash[i]
RECURSIVE HexString(_)
HexString(hash) ==
    IF hash = << >> THEN << >>
    ELSE <<HexDigit(Head(hash) \div 16), HexDigit(Head(hash) % 16)>>
         \o HexString(Tail(hash))
\* calculate_file_hash(path): nullopt when the file cannot be opened or the
\* digest computation fails (readable = FALSE), else the hex string
calculate_file_hash(file, readable) ==
    IF file = NoFile \/ ~readable THEN nullopt
    ELSE Some(HexString(EVP_Digest(file[1])))
\* the digest string of a content, as the client computes it
DigestOf(c) == HexString(EVP_Digest(c))
\* a digest string in upper case (never produced by calculate_file_hash)
UpperCase(str) == [i \in DOMAIN str |-> IF str[i] >= 97 THEN str[i] - 32 ELSE str[i]]

\* ------------------------------------------------------- Persistent Store
\* nvram.dat is a sequence of lines; a KEY=VALUE line is <<key, value>>, a
\* line without '=' is <<text>>.  Digest values are sequences of character
\* codes, the other values are strings.
GOLDEN_KEY == "FIRMWARE_HASH_GOLDEN"
\* std::map iterates its keys in sorted order
KeyOrder == <<"ECU_SERIAL_NUMBER", "FIRMWARE_HASH_GOLDEN", "FIRMWARE_VERSION">>
NoData == [k \in {} |-> << >>]
MapSet(m, k, v) == [x \in (DOMAIN m) \cup {k} |-> IF x = k THEN v ELSE m[x]]
\* the loop of NVRAMManager::load over the lines of the file
RECURSIVE ParseLines(_, _)
ParseLines(m, lines) ==
    IF lines = << >> THEN m
    ELSE LET line == Head(lines)
         IN  IF Len(line) = 2
             THEN ParseLines(MapSet(m, line[1], line[2]), Tail(lines))
             ELSE ParseLines(m, Tail(lines))
\* a save that leaves out the line of the golden digest
SavedLinesWithoutGolden(m) ==
    LET keys == SelectSeq(KeyOrder, LAMBDA k : k \in DOMAIN m /\ k # GOLDEN_KEY)
    IN  [i \in 1..Len(keys) |-> <<keys[i], m[keys[i]]>>]
\* the lines NVRAMManager::save writes
SavedLines(m) ==
    LET keys == SelectSeq(KeyOrder, LAMBDA k : k \in DOMAIN m)
    IN  [i \in 1..Len(keys) |-> <<keys[i], m[keys[i]]>>]
\* a default store that carries the digest of the one-byte image <<1>>, the
\* image the ECU runs
DefaultNvramOfImage(m) ==
    MapSet(MapSet(MapSet(m, "FIRMWARE_VERSION", "1.0.0"),
                  "ECU_SERIAL_NUMBER", "VECU-2023-001"),
           GOLDEN_KEY, DigestOf(<<1>>))
\* NVRAMManager::create_default_nvram, the map it builds
DefaultNvram(m) ==
    MapSet(MapSet(MapSet(m, "FIRMWARE_VERSION", "1.0.0"),
                  "ECU_SERIAL_NUMBER", "VECU-2023-001"),
           GOLDEN_KEY, DigestOf(<< >>))
\* NVRAMManager::get_string
get_string(m, key) == IF key \in DOMAIN m THEN Some(m[key]) ELSE nullopt

\* the executable the process was started from
RunningImage == <<1>>
\* the stores the ECU may be started with
StoreWith(golden) ==
    File(<< <<"FIRMWARE_VERSION", "1.0.0">>,
            <<"ECU_SERIAL_NUMBER", "VECU-2023-001">>,
            <<GOLDEN_KEY, golden>> >>)
InitialStores ==
    { NoFile, File(<< <<"FIRMWARE_VERSION", "1.0.0">> >>),
      StoreWith(DigestOf(RunningImage)) }

\* ------------------------------------------------------------------ state
VARIABLES
    pc,                   \* main thread: where main() is
    g_ecu_state,          \* std::atomic<EcuState>
    g_running,            \* std::atomic<bool>
    g_doip_server,        \* TRUE when the unique_ptr holds a server
    server_thread,        \* "none", "running" (in DoIPServer::run), "finished"
    io_stopped,           \* g_io_context.stopped()
    nvram_file,           \* nvram.dat
    m_data,               \* g_nvram.m_data
    loaded,               \* run_boot_sequence: result of g_nvram.load()
    golden_hash_opt,      \* run_boot_sequence: local
    calculated_hash_opt,  \* run_boot_sequence: local
    boot_log,             \* what the boot handler did in the earlier runs of the
                          \* process, oldest first
    fs_exec,              \* the file at g_executable_path
    exec_perm,            \* its executable permission bits are set
    fs_update,            \* update.bin
    conn,                 \* per session: "free", "open", "closed"
    pending,              \* per session: the asynchronous operations in flight
    m_received_header,    \* per session
    m_payload,            \* per session
    m_update_file,        \* per session: the std::ofstream
    m_firmware_file_size, \* per session: uint32_t
    m_bytes_received,     \* per session: uint32_t
    n_rx,                 \* per session: frames dispatched (process_message calls)
    sent_chunks           \* per session: chunk bytes of the TransferData
                          \* requests answered since the last answered
                          \* RequestDownload (what the client submitted)

mainVars == <<pc, g_ecu_state, g_running, g_doip_server, server_thread, io_stopped>>
bootVars == <<nvram_file, m_data, loaded, golden_hash_opt, calculated_hash_opt,
             boot_log>>
fileVars == <<fs_exec, exec_perm, fs_update>>
sessVars == <<conn, pending, m_received_header, m_payload, m_update_file,
              m_firmware_file_size, m_bytes_received, n_rx, sent_chunks>>
vars == <<mainVars, bootVars, fileVars, sessVars>>

ClosedStream == [open |-> FALSE, good |-> TRUE, off |-> 0, buf |-> << >>, onexe |-> FALSE]
\* the header of a session that has read nothing
NoHeader == [protocol_version |-> 0, inverse_protocol_version |-> 0,
             payload_type |-> 0, payload_length |-> <<0, 0>>]

Init ==
    /\ pc = "start_network_server"
    /\ g_ecu_state = "BOOT"
    /\ g_running = TRUE
    /\ g_doip_server = FALSE
    /\ server_thread = "none"
    /\ io_stopped = FALSE
    /\ nvram_file \in InitialStores
    /\ m_data = NoData
    /\ loaded = FALSE
    /\ golden_hash_opt = nullopt
    /\ calculated_hash_opt = nullopt
    /\ boot_log = << >>
    /\ fs_exec = File(RunningImage)
    /\ exec_perm = TRUE
    /\ fs_update = NoFile
    /\ conn = [s \in Sessions |-> "free"]
    /\ pending = [s \in Sessions |-> << >>]
    /\ m_received_header = [s \in Sessions |-> NoHeader]
    /\ m_payload = [s \in Sessions |-> << >>]
    /\ m_update_file = [s \in Sessions |-> ClosedStream]
    /\ m_firmware_file_size = [s \in Sessions |-> U32(0)]
    /\ m_bytes_received = [s \in Sessions |-> U32(0)]
    /\ n_rx = [s \in Sessions |-> 0]
    /\ sent_chunks = [s \in Sessions |-> << >>]

\* ------------------------------------------------------------ main thread
\* start_network_server(): the constructor throws when the port cannot be
\* bound (bound = FALSE)
start_network_server ==
    /\ pc = "start_network_server"
    /\ \E bound \in BOOLEAN :
          IF bound
          THEN /\ g_doip_server' = TRUE
               /\ server_thread' = "running"
               /\ UNCHANGED g_ecu_state
          ELSE /\ g_ecu_state' = "BRICKED"
               /\ UNCHANGED <<g_doip_server, server_thread>>
    /\ pc' = "while"
    /\ UNCHANGED <<g_running, io_stopped, bootVars, fileVars, sessVars>>

\* One iteration of while (g_running) { switch (g_ecu_state) ... } is one
\* action: the two loads and the case body, which touches nothing another
\* thread reads except the store the action names.

\* while (g_running) is left
MainLoopExit ==
    /\ pc = "while"
    /\ ~g_running
    /\ pc' = "stop_network_server"
    /\ UNCHANGED <<g_ecu_state, g_running, g_doip_server, server_thread,
                   io_stopped, bootVars, fileVars, sessVars>>

\* case EcuState::BOOT: run_boot_sequence is entered
MainBoot ==
    /\ pc = "while"
    /\ g_running
    /\ g_ecu_state = "BOOT"
    /\ pc' = "BOOT"
    /\ UNCHANGED <<g_ecu_state, g_running, g_doip_server, server_thread,
                   io_stopped, bootVars, fileVars, sessVars>>

\* NVRAMManager::load: <<result, m_data after, nvram.dat after>>; saved says
\* whether the default store could be written
load(saved) ==
    IF nvram_file = NoFile
    THEN IF saved
         THEN <<TRUE, DefaultNvram(m_data), File(SavedLines(DefaultNvram(m_data)))>>
         ELSE <<FALSE, DefaultNvram(m_data), NoFile>>
    ELSE <<TRUE, ParseLines(m_data, nvram_file[1]), nvram_file>>

\* run_boot_sequence without the comparison of the two digest strings
BootVerdictNoCompare(ld, golden, calculated) ==
    IF ~ld \/ golden = nullopt \/ calculated = nullopt THEN "BRICKED"
    ELSE "APPLICATION"
\* the state run_boot_sequence decides on from its three locals
BootVerdict(ld, golden, calculated) ==
    IF ~ld THEN "BRICKED"
    ELSE IF golden = nullopt THEN "BRICKED"
    ELSE IF calculated = nullopt THEN "BRICKED"
    ELSE IF golden[1] # calculated[1] THEN "BRICKED"
    ELSE "APPLICATION"

\* run_boot_sequence up to the integrity check: each failure stores BRICKED
\* and returns; a pass goes on to the simulated peripheral init and POST
BootVerify ==
    /\ pc = "BOOT"
    /\ \E saved \in BOOLEAN, readable \in BOOLEAN :
         LET r == load(saved)
             golden == IF r[1] THEN get_string(r[2], GOLDEN_KEY) ELSE nullopt
             calculated == IF r[1] /\ golden # nullopt
                           THEN calculate_file_hash(fs_exec, readable)
                           ELSE nullopt
         IN  /\ loaded' = r[1]
             /\ m_data' = r[2]
             /\ nvram_file' = r[3]
             /\ golden_hash_opt' = golden
             /\ calculated_hash_opt' = calculated
             /\ IF BootVerdict(r[1], golden, calculated) = "BRICKED"
                THEN g_ecu_state' = "BRICKED" /\ pc' = "while"
                ELSE UNCHANGED g_ecu_state /\ pc' = "boot_post"
    /\ UNCHANGED <<g_running, g_doip_server, server_thread, io_stopped,
                   boot_log, fileVars, sessVars>>

\* run_boot_sequence after the two sleeps: the store of APPLICATION
BootFinish ==
    /\ pc = "boot_post"
    /\ g_ecu_state' = "APPLICATION"
    /\ pc' = "while"
    /\ UNCHANGED <<g_running, g_doip_server, server_thread, io_stopped,
                   bootVars, fileVars, sessVars>>

\* case EcuState::APPLICATION: run_application_mode() prints and sleeps
run_application_mode ==
    /\ pc = "while"
    /\ g_running
    /\ g_ecu_state = "APPLICATION"
    /\ UNCHANGED vars

\* case EcuState::UPDATE_PENDING: prints and sleeps
MainUpdatePending ==
    /\ pc = "while"
    /\ g_running
    /\ g_ecu_state = "UPDATE_PENDING"
    /\ UNCHANGED vars

\* case EcuState::BRICKED: g_running = false
MainBricked ==
    /\ pc = "while"
    /\ g_running
    /\ g_ecu_state = "BRICKED"
    /\ g_running' = FALSE
    /\ UNCHANGED <<pc, g_ecu_state, g_doip_server, server_thread, io_stopped,
                   bootVars, fileVars, sessVars>>

\* --------------------------------------------------- files and ofstreams
Zeros(n) == [i \in 1..n |-> 0]
\* pwrite of bytes at offset off: a gap past the end reads as zeros
WriteAt(c, off, bytes) ==
    IF bytes = << >> THEN c
    ELSE LET base == IF off > Len(c) THEN c \o Zeros(off - Len(c)) ELSE c
             end == off + Len(bytes)
             len == IF end > Len(base) THEN end ELSE Len(base)
         IN  [i \in 1..len |-> IF i > off /\ i <= end THEN bytes[i - off] ELSE base[i]]
\* the filebuf writes out its buffer: <<stream after, file after>>
StreamFlush(st, file) ==
    IF st.buf = << >> \/ file = NoFile THEN <<[st EXCEPT !.buf = << >>], file>>
    ELSE <<[st EXCEPT !.buf = << >>, !.off = st.off + Len(st.buf)],
           File(WriteAt(file[1], st.off, st.buf))>>
\* std::ofstream::open("update.bin", binary | trunc); created says whether the
\* file could be created/truncated.  On a stream that is already open the
\* filebuf refuses, the file is untouched and failbit is set.
StreamOpen(st, file, created) ==
    IF st.open THEN <<[st EXCEPT !.good = FALSE], file>>
    ELSE IF created
         THEN <<[open |-> TRUE, good |-> TRUE, off |-> 0, buf |-> << >>, onexe |-> FALSE],
                File(<< >>)>>
         ELSE <<[st EXCEPT !.good = FALSE], file>>
\* std::ofstream::write(data, n): nothing when the stream is not good; a
\* negative count, or a filebuf that is not open, writes nothing and sets
\* badbit; else the bytes go to the buffer, which the filebuf writes out now
\* (flush) or keeps
StreamWrite(st, file, chunk, negative, flush) ==
    IF ~st.good THEN <<st, file>>
    ELSE IF negative \/ ~st.open THEN <<[st EXCEPT !.good = FALSE], file>>
    ELSE LET buffered == [st EXCEPT !.buf = st.buf \o chunk]
         IN  IF flush THEN StreamFlush(buffered, file) ELSE <<buffered, file>>
\* flush() in the place of close(): the buffer is written out, the stream
\* stays open
StreamFlushOnly(st, file) == IF ~st.open THEN <<st, file>> ELSE StreamFlush(st, file)
\* std::ofstream::close(), also run by the destructor
StreamClose(st, file) ==
    IF ~st.open THEN <<st, file>>
    ELSE LET f == StreamFlush(st, file)
         IN  <<[f[1] EXCEPT !.open = FALSE, !.off = 0], f[2]>>

\* ------------------------------------------------------------ wire frames
\* a request as the client builds it
Frame(ver, inv, ptype, payload) ==
    [ver |-> ver, inv |-> inv, ptype |-> ptype, payload |-> payload]
\* the 8 header bytes on the wire, as send_and_receive writes them
HeaderBytes(ver, inv, ptype, len) ==
    <<ver, inv>> \o Store16(htons(ptype)) \o Store32(htonl(U32(len)))
\* the header do_read_header ends up with: the struct overlaid on the bytes,
\* payload_type through ntohs and payload_length through ntohl
DecodeHeader(b) ==
    [protocol_version |-> b[1], inverse_protocol_version |-> b[2],
     payload_type |-> ntohs(Load16(<<b[3], b[4]>>)),
     payload_length |-> ntohl(Load32(<<b[5], b[6], b[7], b[8]>>))]
\* the fields of a header on the wire, as the client decodes them
WireType(b) == ntohs(Load16(<<b[3], b[4]>>))
WireLength(b) == ntohl(Load32(<<b[5], b[6], b[7], b[8]>>))

\* std::string vin = "VECU-SIM-1234567"
VIN == <<86, 69, 67, 85, 45, 83, 73, 77, 45, 49, 50, 51, 52, 53, 54, 55>>

\* the requests of the client
RoutineControlPayloads ==
    { <<UDS_ROUTINE_CONTROL, 1, 255, 0>>,        \* doip_client --program
      <<UDS_ROUTINE_CONTROL, 1, 18, 52>>,        \* another routine id
      <<UDS_ROUTINE_CONTROL, 1, 255>> }          \* too short
RequestDownloadPayloads ==
    { <<UDS_REQUEST_DOWNLOAD, 0, 68, 0, 0, 0, 0, 0, 0, 1>>,     \* size 1 at 6..9
      <<UDS_REQUEST_DOWNLOAD, 0, 68, 0, 0, 0, 0, 0, 0, 3>>,     \* size 3 at 6..9
      <<UDS_REQUEST_DOWNLOAD, 0, 68, 0, 0, 0, 0, 0, 0, 0, 3>>,  \* doip_client --update
      <<UDS_REQUEST_DOWNLOAD, 0, 68>> }                         \* too short
TransferDataPayloads ==
    { <<UDS_TRANSFER_DATA>>,                     \* no block counter
      <<UDS_TRANSFER_DATA, 1>>,                  \* empty chunk
      <<UDS_TRANSFER_DATA, 1, 1>>,
      <<UDS_TRANSFER_DATA, 2, 0, 1>> }
NewImages == { << >>, <<1>>, <<0, 1>> }
TransferExitPayloads ==
    { <<UDS_REQUEST_TRANSFER_EXIT>> \o DigestOf(c) : c \in NewImages }
    \cup { <<UDS_REQUEST_TRANSFER_EXIT>> \o UpperCase(DigestOf(<<1>>)),
           <<UDS_REQUEST_TRANSFER_EXIT>> \o DigestOf(<<1>>) \o <<48>>,
           <<UDS_REQUEST_TRANSFER_EXIT>> \o SubSeq(DigestOf(<<1>>), 1, 3),
           <<UDS_REQUEST_TRANSFER_EXIT>> }
Frames ==
    { Frame(PROTOCOL_VERSION, Inverse8(PROTOCOL_VERSION), DIAGNOSTIC, p) :
        p \in RoutineControlPayloads \cup RequestDownloadPayloads
              \cup TransferDataPayloads \cup TransferExitPayloads
              \cup { << >>, <<16>> } }
    \cup { Frame(PROTOCOL_VERSION, Inverse8(PROTOCOL_VERSION), VEHICLE_ID_REQUEST, << >>),
           Frame(PROTOCOL_VERSION, Inverse8(PROTOCOL_VERSION), 32770, << >>),
           \* inverse_protocol_version is not the complement
           Frame(PROTOCOL_VERSION, 0, DIAGNOSTIC, <<UDS_ROUTINE_CONTROL, 1, 255, 0>>) }

\* -------------------------------------------------------- session engine
RECURSIVE SumOver(_, _)
SumOver(f, S) ==
    IF S = {} THEN 0
    ELSE LET x == CHOOSE y \in S : TRUE IN f[x] + SumOver(f, S \ {x})
Remove(seq, i) == [j \in 1..(Len(seq) - 1) |-> IF j < i THEN seq[j] ELSE seq[j + 1]]
\* std::vector::resize: the elements kept, new ones value-initialised
Resize(v, n) == [i \in 1..n |-> IF i <= Len(v) THEN v[i] ELSE 0]

\* the handlers of the sessions run inside io_context::run() of the server
\* thread, until the io_context is stopped
NetRunning == server_thread = "running" /\ ~io_stopped

ReadHeaderOp ==
    [kind |-> "read_header", header |-> << >>, payload |-> << >>, sent |-> FALSE]
ReadPayloadOp ==
    [kind |-> "read_payload", header |-> << >>, payload |-> << >>, sent |-> FALSE]
\* an async_write of a response: the header lives in a shared_ptr the
\* completion handler owns; tx.wire is what the payload buffer yields when
\* the socket sends it, tx.sent whether the socket took the frame inside the
\* initiating call (else the send waits for the io_context to run it)
WriteOp(ptype, len, tx) ==
    [kind |-> "write",
     header |-> <<PROTOCOL_VERSION, Inverse8(PROTOCOL_VERSION)>>
                \o Store16(htons(ptype)) \o Store32(htonl(U32(len))),
     payload |-> tx.wire,
     sent |-> tx.sent]

\* The payload buffer handed to async_write refers to a vector that is
\* destroyed when the calling function returns, before the completion
\* handler runs.  When the socket takes the bytes inside the initiating call
\* they are the payload; when the send is deferred the buffer is read after
\* its storage was released, and the bytes are whatever is there.
Transmitted(payload) ==
    { [sent |-> TRUE, wire |-> payload] }
    \cup { [sent |-> FALSE, wire |-> w] : w \in { payload, Zeros(Len(payload)) } }
\* what m_payload[1] yields when the payload has one byte
StrayBytes == {0, 1}

dispatchVars == <<g_ecu_state, g_running, io_stopped, fs_exec, exec_perm, fs_update,
                  conn, pending, m_update_file, m_firmware_file_size,
                  m_bytes_received, sent_chunks>>

\* The session object is destroyed when its last operation is gone: the
\* destructor of m_update_file closes (and writes out) the stream and the
\* transfer context ceases to exist.  m_received_header and m_payload are
\* kept in the model as the last frame read on the connection.
\* a teardown that takes every session with it
DestroyEverySession(s, rest, stream, file) ==
    /\ pending' = [x \in Sessions |-> << >>]
    /\ conn' = [x \in Sessions |-> IF conn[x] = "open" THEN "closed" ELSE conn[x]]
    /\ fs_update' = StreamClose(stream, file)[2]
    /\ m_update_file' = [x \in Sessions |-> ClosedStream]
    /\ m_firmware_file_size' = [x \in Sessions |-> U32(0)]
    /\ m_bytes_received' = [x \in Sessions |-> U32(0)]
    /\ sent_chunks' = [x \in Sessions |-> << >>]
DestroySession(s, rest, stream, file) ==
    LET c == StreamClose(stream, file)
    IN  /\ pending' = [pending EXCEPT ![s] = rest]
        /\ IF rest = << >>
           THEN /\ conn' = [conn EXCEPT ![s] = "closed"]
                /\ fs_update' = c[2]
                /\ m_update_file' = [m_update_file EXCEPT ![s] = ClosedStream]
                /\ m_firmware_file_size' = [m_firmware_file_size EXCEPT ![s] = U32(0)]
                /\ m_bytes_received' = [m_bytes_received EXCEPT ![s] = U32(0)]
                /\ sent_chunks' = [sent_chunks EXCEPT ![s] = << >>]
           ELSE /\ fs_update' = file
                /\ m_update_file' = [m_update_file EXCEPT ![s] = stream]
                /\ UNCHANGED <<conn, m_firmware_file_size, m_bytes_received,
                               sent_chunks>>

do_read_header(s, rest) ==
    pending' = [pending EXCEPT ![s] = rest \o <<ReadHeaderOp>>]

do_write_generic_response(s, rest, ptype, payload) ==
    \E tx \in Transmitted(payload) :
       pending' = [pending EXCEPT ![s] = rest \o <<WriteOp(ptype, Len(payload), tx)>>]

\* a negative response in the place of the silent read of the next header
UnsupportedAnswered(s, rest) ==
    /\ do_write_generic_response(s, rest, DIAGNOSTIC, <<127>>)
    /\ UNCHANGED <<g_ecu_state, g_running, io_stopped, fs_exec, exec_perm, fs_update,
                   conn, m_update_file, m_firmware_file_size, m_bytes_received,
                   sent_chunks>>
\* "Received unsupported or out-of-sequence UDS command": do_read_header()
Unsupported(s, rest) ==
    /\ do_read_header(s, rest)
    /\ UNCHANGED <<g_ecu_state, g_running, io_stopped, fs_exec, exec_perm, fs_update,
                   conn, m_update_file, m_firmware_file_size, m_bytes_received,
                   sent_chunks>>

\* case 0x0004 without its break: the announcement is written and the
\* default case issues a header read as well
VehicleAnnouncementAndRead(s, rest) ==
    /\ \E tx \in Transmitted(VIN) :
          pending' = [pending EXCEPT ![s] =
                         rest \o <<WriteOp(VEHICLE_ANNOUNCEMENT, Len(VIN), tx), ReadHeaderOp>>]
    /\ UNCHANGED <<g_ecu_state, g_running, io_stopped, fs_exec, exec_perm, fs_update,
                   conn, m_update_file, m_firmware_file_size, m_bytes_received,
                   sent_chunks>>
do_write_vehicle_announcement(s, rest) ==
    /\ do_write_generic_response(s, rest, VEHICLE_ANNOUNCEMENT, VIN)
    /\ UNCHANGED <<g_ecu_state, g_running, io_stopped, fs_exec, exec_perm, fs_update,
                   conn, m_update_file, m_firmware_file_size, m_bytes_received,
                   sent_chunks>>

\* case 0x31
RoutineId(pl) == pl[3] * 256 + pl[4]
RoutineControl(s, rest, pl) ==
    IF Len(pl) < 4 THEN Unsupported(s, rest)
    ELSE IF RoutineId(pl) = UDS_ENTER_PROGRAMMING_SESSION
    THEN /\ g_ecu_state' = "UPDATE_PENDING"
         /\ do_write_generic_response(s, rest, DIAGNOSTIC,
                <<UDS_ROUTINE_CONTROL + POSITIVE_RESPONSE>> \o Tail(pl))
         /\ UNCHANGED <<g_running, io_stopped, fs_exec, exec_perm, fs_update, conn,
                        m_update_file, m_firmware_file_size, m_bytes_received,
                        sent_chunks>>
    ELSE Unsupported(s, rest)

\* case 0x34
DeclaredSize(pl) == <<pl[7] * 256 + pl[8], pl[9] * 256 + pl[10]>>
\* the gate of case 0x34 without the test of g_ecu_state
RequestDownloadGateAnyState(s, pl) == Len(pl) >= 10
\* the gate of case 0x34 with a "busy" test: no other session has update.bin
\* open
RequestDownloadGateExclusive(s, pl) ==
    /\ g_ecu_state = "UPDATE_PENDING"
    /\ Len(pl) >= 10
    /\ \A x \in Sessions \ {s} : ~m_update_file[x].open
RequestDownloadGate(s, pl) == g_ecu_state = "UPDATE_PENDING" /\ Len(pl) >= 10
\* case 0x34 without the test of is_open() after the open
RequestDownloadUnchecked(s, rest, pl) ==
    IF ~RequestDownloadGate(s, pl) THEN Unsupported(s, rest)
    ELSE \E created \in BOOLEAN :
         LET o == StreamOpen(m_update_file[s], fs_update, created)
         IN  /\ m_firmware_file_size' =
                    [m_firmware_file_size EXCEPT ![s] = DeclaredSize(pl)]
             /\ m_update_file' = [m_update_file EXCEPT ![s] = o[1]]
             /\ fs_update' = o[2]
             /\ m_bytes_received' = [m_bytes_received EXCEPT ![s] = U32(0)]
             /\ sent_chunks' = [sent_chunks EXCEPT ![s] = << >>]
             /\ do_write_generic_response(s, rest, DIAGNOSTIC,
                    <<UDS_REQUEST_DOWNLOAD + POSITIVE_RESPONSE, 32, 16, 0>>)
             /\ UNCHANGED <<g_ecu_state, g_running, io_stopped, fs_exec, exec_perm, conn>>
RequestDownload(s, rest, pl) ==
    IF ~RequestDownloadGate(s, pl) THEN Unsupported(s, rest)
    ELSE \E created \in BOOLEAN :
         LET o == StreamOpen(m_update_file[s], fs_update, created)
         IN  /\ m_firmware_file_size' =
                    [m_firmware_file_size EXCEPT ![s] = DeclaredSize(pl)]
             /\ m_update_file' = [m_update_file EXCEPT ![s] = o[1]]
             /\ fs_update' = o[2]
             /\ IF ~o[1].open
                THEN /\ do_read_header(s, rest)
                     /\ UNCHANGED <<m_bytes_received, sent_chunks>>
                ELSE /\ m_bytes_received' = [m_bytes_received EXCEPT ![s] = U32(0)]
                     /\ sent_chunks' = [sent_chunks EXCEPT ![s] = << >>]
                     /\ do_write_generic_response(s, rest, DIAGNOSTIC,
                            <<UDS_REQUEST_DOWNLOAD + POSITIVE_RESPONSE, 32, 16, 0>>)
             /\ UNCHANGED <<g_ecu_state, g_running, io_stopped, fs_exec, exec_perm, conn>>

\* case 0x36
\* the gate of case 0x36 without the test of is_open()
TransferDataGateStateOnly(s) == g_ecu_state = "UPDATE_PENDING"
TransferDataGate(s) == g_ecu_state = "UPDATE_PENDING" /\ m_update_file[s].open
Chunk(pl) == IF Len(pl) >= 2 THEN SubSeq(pl, 3, Len(pl)) ELSE << >>
TransferData(s, rest, pl) ==
    IF ~TransferDataGate(s) THEN Unsupported(s, rest)
    ELSE \E flush \in BOOLEAN,
            counter \in (IF Len(pl) >= 2 THEN {pl[2]} ELSE StrayBytes) :
         LET w == StreamWrite(m_update_file[s], fs_update, Chunk(pl), Len(pl) < 2, flush)
         IN  /\ m_update_file' = [m_update_file EXCEPT ![s] = w[1]]
             /\ fs_update' = w[2]
             /\ m_bytes_received' =
                    [m_bytes_received EXCEPT ![s] = U32Plus(@, SizeMinus2(Len(pl)))]
             /\ sent_chunks' = [sent_chunks EXCEPT ![s] = @ \o Chunk(pl)]
             /\ do_write_generic_response(s, rest, DIAGNOSTIC,
                    <<UDS_TRANSFER_DATA + POSITIVE_RESPONSE, counter>>)
             /\ UNCHANGED <<g_ecu_state, g_running, io_stopped, fs_exec, exec_perm,
                            conn, m_firmware_file_size>>

\* apply_update(g_executable_path): std::rename("update.bin", path), then the
\* server is stopped and g_running cleared whether or not the rename worked.
\* The streams other sessions hold open on update.bin follow the file.
apply_update(s, closed, staged, renamed) ==
    /\ IF renamed
       THEN /\ fs_exec' = staged
            /\ exec_perm' = FALSE
            /\ fs_update' = NoFile
            /\ m_update_file' =
                 [x \in Sessions |->
                    IF x = s THEN closed
                    ELSE IF m_update_file[x].open
                         THEN [m_update_file[x] EXCEPT !.onexe = TRUE]
                         ELSE m_update_file[x]]
       ELSE /\ fs_update' = staged
            /\ m_update_file' = [m_update_file EXCEPT ![s] = closed]
            /\ UNCHANGED <<fs_exec, exec_perm>>
    /\ io_stopped' = (IF g_doip_server THEN TRUE ELSE io_stopped)
    /\ g_running' = FALSE

\* case 0x37
\* the gate of case 0x37 without the test of is_open()
TransferExitGateStateOnly(s) == g_ecu_state = "UPDATE_PENDING"
TransferExitGate(s) == g_ecu_state = "UPDATE_PENDING" /\ m_update_file[s].open
\* a comparison of the first characters only
DigestMatchesFirstChar(calculated, pl) == Len(pl) >= 2 /\ calculated[1] = pl[2]
\* a comparison that ignores the case of the letters
DigestMatchesIgnoringCase(calculated, pl) == UpperCase(calculated) = UpperCase(Tail(pl))
\* a comparison that accepts every declared digest
DigestMatchesAny(calculated, pl) == TRUE
DigestMatches(calculated, pl) == calculated = Tail(pl)
RequestTransferExit(s, rest, pl) ==
    IF ~TransferExitGate(s) THEN Unsupported(s, rest)
    ELSE \E readable \in BOOLEAN, renamed \in BOOLEAN :
         LET c == StreamClose(m_update_file[s], fs_update)
             calculated_hash == calculate_file_hash(c[2], readable)
         IN  IF calculated_hash = nullopt
             THEN /\ m_update_file' = [m_update_file EXCEPT ![s] = c[1]]
                  /\ fs_update' = c[2]
                  /\ do_read_header(s, rest)
                  /\ UNCHANGED <<g_ecu_state, g_running, io_stopped, fs_exec, exec_perm,
                                 conn, m_firmware_file_size, m_bytes_received,
                                 sent_chunks>>
             ELSE IF DigestMatches(calculated_hash[1], pl)
             THEN /\ do_write_generic_response(s, rest, DIAGNOSTIC,
                         <<UDS_REQUEST_TRANSFER_EXIT + POSITIVE_RESPONSE>>)
                  /\ apply_update(s, c[1], c[2], renamed)
                  /\ UNCHANGED <<g_ecu_state, conn, m_firmware_file_size,
                                 m_bytes_received, sent_chunks>>
             ELSE \* mismatch: return without a new operation; the handler held
                  \* the last reference to the session, which is destroyed
                  /\ DestroySession(s, rest, c[1], c[2])
                  /\ UNCHANGED <<g_ecu_state, g_running, io_stopped, fs_exec, exec_perm>>

handle_uds_message(s, rest, pl) ==
    IF pl = << >> THEN Unsupported(s, rest)
    ELSE IF pl[1] = UDS_ROUTINE_CONTROL THEN RoutineControl(s, rest, pl)
    ELSE IF pl[1] = UDS_REQUEST_DOWNLOAD THEN RequestDownload(s, rest, pl)
    ELSE IF pl[1] = UDS_TRANSFER_DATA THEN TransferData(s, rest, pl)
    ELSE IF pl[1] = UDS_REQUEST_TRANSFER_EXIT THEN RequestTransferExit(s, rest, pl)
    ELSE Unsupported(s, rest)

process_message(s, rest, hdr, pl) ==
    IF hdr.payload_type = VEHICLE_ID_REQUEST THEN do_write_vehicle_announcement(s, rest)
    ELSE IF hdr.payload_type = DIAGNOSTIC THEN handle_uds_message(s, rest, pl)
    ELSE Unsupported(s, rest)

\* the requests the client may send next on session s: a TransferData whose
\* chunk would take the stream past MaxFileLen is not sent
FrameAllowed(s, f) ==
    (f.ptype = DIAGNOSTIC /\ f.payload # << >> /\ f.payload[1] = UDS_TRANSFER_DATA)
        => m_update_file[s].off + Len(m_update_file[s].buf) + Len(Chunk(f.payload))
              <= MaxFileLen

\* DoIPServer::start_accept, the completion handler: a session is created
\* and started, and the next accept is armed
Accept(s) ==
    /\ NetRunning
    /\ conn[s] = "free"
    /\ conn' = [conn EXCEPT ![s] = "open"]
    /\ pending' = [pending EXCEPT ![s] = <<ReadHeaderOp>>]
    /\ UNCHANGED <<mainVars, bootVars, fileVars, m_received_header, m_payload,
                   m_update_file, m_firmware_file_size, m_bytes_received, n_rx,
                   sent_chunks>>

\* do_read_header, the completion handler without error, and do_read_payload
\* which it calls: an empty payload is dispatched at once
HeaderRead(s) ==
    /\ NetRunning
    /\ conn[s] = "open"
    /\ SumOver(n_rx, Sessions) < MaxFrames
    /\ \E i \in DOMAIN pending[s], f \in Frames :
         LET hdr == DecodeHeader(HeaderBytes(f.ver, f.inv, f.ptype, Len(f.payload)))
             rest == Remove(pending[s], i)
         IN  /\ pending[s][i].kind = "read_header"
             /\ m_received_header' = [m_received_header EXCEPT ![s] = hdr]
             /\ m_payload' = [m_payload EXCEPT ![s] = Resize(@, hdr.payload_length[2])]
             /\ IF hdr.payload_length = U32(0)
                THEN /\ n_rx' = [n_rx EXCEPT ![s] = @ + 1]
                     /\ process_message(s, rest, hdr, << >>)
                ELSE /\ pending' = [pending EXCEPT ![s] = rest \o <<ReadPayloadOp>>]
                     /\ UNCHANGED <<g_ecu_state, g_running, io_stopped, fileVars, conn,
                                    m_update_file, m_firmware_file_size,
                                    m_bytes_received, n_rx, sent_chunks>>
    /\ UNCHANGED <<pc, g_doip_server, server_thread, bootVars>>

\* do_read_payload, the completion handler without error
PayloadRead(s) ==
    /\ NetRunning
    /\ conn[s] = "open"
    /\ \E i \in DOMAIN pending[s], f \in Frames :
         /\ pending[s][i].kind = "read_payload"
         /\ DecodeHeader(HeaderBytes(f.ver, f.inv, f.ptype, Len(f.payload)))
               = m_received_header[s]
         /\ FrameAllowed(s, f)
         /\ m_payload' = [m_payload EXCEPT ![s] = f.payload]
         /\ n_rx' = [n_rx EXCEPT ![s] = @ + 1]
         /\ process_message(s, Remove(pending[s], i), m_received_header[s], f.payload)
    /\ UNCHANGED <<pc, g_doip_server, server_thread, bootVars, m_received_header>>

\* a read completes with an error or end of stream: nothing more is issued
ReadError(s) ==
    /\ NetRunning
    /\ conn[s] = "open"
    /\ \E i \in DOMAIN pending[s] :
         /\ pending[s][i].kind \in {"read_header", "read_payload"}
         /\ DestroySession(s, Remove(pending[s], i), m_update_file[s], fs_update)
    /\ UNCHANGED <<mainVars, bootVars, fs_exec, exec_perm, m_received_header,
                   m_payload, n_rx>>

\* a response write completes without error: do_read_header()
WriteDone(s) ==
    /\ NetRunning
    /\ conn[s] = "open"
    /\ \E i \in DOMAIN pending[s] :
         /\ pending[s][i].kind = "write"
         /\ do_read_header(s, Remove(pending[s], i))
    /\ UNCHANGED <<mainVars, bootVars, fileVars, conn, m_received_header, m_payload,
                   m_update_file, m_firmware_file_size, m_bytes_received, n_rx,
                   sent_chunks>>

\* a response write completes with an error: nothing more is issued
WriteError(s) ==
    /\ NetRunning
    /\ conn[s] = "open"
    /\ \E i \in DOMAIN pending[s] :
         /\ pending[s][i].kind = "write"
         /\ DestroySession(s, Remove(pending[s], i), m_update_file[s], fs_update)
    /\ UNCHANGED <<mainVars, bootVars, fs_exec, exec_perm, m_received_header,
                   m_payload, n_rx>>

\* DoIPServer::run returns once the io_context is stopped
ServerThreadExit ==
    /\ server_thread = "running"
    /\ io_stopped
    /\ server_thread' = "finished"
    /\ UNCHANGED <<pc, g_ecu_state, g_running, g_doip_server, io_stopped,
                   bootVars, fileVars, sessVars>>

\* handle_signal(SIGINT)
handle_signal ==
    /\ pc # "done"
    /\ io_stopped' = (IF g_doip_server THEN TRUE ELSE io_stopped)
    /\ g_running' = FALSE
    /\ UNCHANGED <<pc, g_ecu_state, g_doip_server, server_thread,
                   bootVars, fileVars, sessVars>>

\* stop_network_server(): join, when the thread is joinable
stop_network_server ==
    /\ pc = "stop_network_server"
    /\ server_thread # "running"
    /\ pc' = "return"
    /\ UNCHANGED <<g_ecu_state, g_running, g_doip_server, server_thread, io_stopped,
                   bootVars, fileVars, sessVars>>

\* the streams of the sessions still alive are closed in some order
Orders == { o \in [1..Cardinality(Sessions) -> Sessions] :
              \A i, j \in DOMAIN o : o[i] = o[j] => i = j }
RECURSIVE CloseAll(_, _, _, _)
CloseAll(order, streams, upd, exe) ==
    IF order = << >> THEN <<streams, upd, exe>>
    ELSE LET s == Head(order)
             c == StreamClose(streams[s], IF streams[s].onexe THEN exe ELSE upd)
         IN  CloseAll(Tail(order), [streams EXCEPT ![s] = c[1]],
                      IF streams[s].onexe THEN upd ELSE c[2],
                      IF streams[s].onexe THEN c[2] ELSE exe)

\* return 0 from main(): the io_context is destroyed with the operations
\* still queued in it, and with them the sessions they keep alive
MainReturn ==
    /\ pc = "return"
    /\ pc' = "done"
    /\ \E order \in Orders :
         LET r == CloseAll(order, m_update_file, fs_update, fs_exec)
         IN  /\ fs_update' = r[2]
             /\ fs_exec' = r[3]
    /\ conn' = [s \in Sessions |-> IF conn[s] = "open" THEN "closed" ELSE conn[s]]
    /\ pending' = [s \in Sessions |-> << >>]
    /\ m_update_file' = [s \in Sessions |-> ClosedStream]
    /\ m_firmware_file_size' = [s \in Sessions |-> U32(0)]
    /\ m_bytes_received' = [s \in Sessions |-> U32(0)]
    /\ sent_chunks' = [s \in Sessions |-> << >>]
    /\ UNCHANGED <<g_ecu_state, g_running, g_doip_server, server_thread, io_stopped,
                   bootVars, exec_perm, m_received_header, m_payload, n_rx>>

Next ==
    \/ start_network_server
    \/ MainLoopExit
    \/ MainBoot
    \/ BootVerify
    \/ BootFinish
    \/ run_application_mode
    \/ MainUpdatePending
    \/ MainBricked
    \/ stop_network_server
    \/ MainReturn
    \/ handle_signal
    \/ ServerThreadExit
    \/ \E s \in OneClient : Accept(s)
    \/ \E s \in Sessions : HeaderRead(s)
    \/ \E s \in Sessions : PayloadRead(s)
    \/ \E s \in Sessions : ReadError(s)
    \/ \E s \in Sessions : WriteDone(s)
    \/ \E s \in Sessions : WriteError(s)

Spec == Init /\ [][Next]_vars

\* start_accept, the completion handler, for a second client that connects
\* while or after the first is served
AcceptSecond ==
    \E s \in Sessions \ OneClient :
       /\ \A x \in OneClient : conn[x] # "free"
       /\ Accept(s)
\* the ECU serving clients: the boot handler has passed on the store of the
\* running image and the server thread runs
Serving ==
    /\ pc = "while"
    /\ g_ecu_state = "APPLICATION"
    /\ g_running = TRUE
    /\ g_doip_server = TRUE
    /\ server_thread = "running"
    /\ io_stopped = FALSE
    /\ nvram_file = StoreWith(DigestOf(RunningImage))
    /\ m_data = ParseLines(NoData, nvram_file[1])
    /\ loaded = TRUE
    /\ golden_hash_opt = Some(DigestOf(RunningImage))
    /\ calculated_hash_opt = Some(DigestOf(RunningImage))
    /\ boot_log = << >>
    /\ fs_exec = File(RunningImage)
    /\ exec_perm = TRUE
    /\ fs_update = NoFile
InitTwo ==
    /\ Serving
    /\ conn = [s \in Sessions |-> "free"]
    /\ pending = [s \in Sessions |-> << >>]
    /\ m_received_header = [s \in Sessions |-> NoHeader]
    /\ m_payload = [s \in Sessions |-> << >>]
    /\ m_update_file = [s \in Sessions |-> ClosedStream]
    /\ m_firmware_file_size = [s \in Sessions |-> U32(0)]
    /\ m_bytes_received = [s \in Sessions |-> U32(0)]
    /\ n_rx = [s \in Sessions |-> 0]
    /\ sent_chunks = [s \in Sessions |-> << >>]
\* the requests of the two clients: enter the programming session, a
\* download of one byte, its one chunk, and an identification request
TwoClientFrames ==
    { Frame(PROTOCOL_VERSION, Inverse8(PROTOCOL_VERSION), DIAGNOSTIC, p) :
        p \in { <<UDS_ROUTINE_CONTROL, 1, 255, 0>>,
                <<UDS_REQUEST_DOWNLOAD, 0, 68, 0, 0, 0, 0, 0, 0, 1>>,
                <<UDS_TRANSFER_DATA, 1, 1>> } }
    \cup { Frame(PROTOCOL_VERSION, Inverse8(PROTOCOL_VERSION), VEHICLE_ID_REQUEST, << >>) }
\* HeaderRead and PayloadRead on the frames of the two clients
HeaderReadTwo(s) ==
    /\ HeaderRead(s)
    /\ \E f \in TwoClientFrames :
          m_received_header'[s] =
             DecodeHeader(HeaderBytes(f.ver, f.inv, f.ptype, Len(f.payload)))
PayloadReadTwo(s) ==
    /\ PayloadRead(s)
    /\ \E f \in TwoClientFrames : m_payload'[s] = f.payload
NextTwo ==
    \/ run_application_mode
    \/ MainUpdatePending
    \/ MainLoopExit
    \/ stop_network_server
    \/ MainReturn
    \/ handle_signal
    \/ ServerThreadExit
    \/ \E s \in OneClient : Accept(s)
    \/ AcceptSecond
    \/ \E s \in Sessions : HeaderReadTwo(s)
    \/ \E s \in Sessions : PayloadReadTwo(s)
    \/ \E s \in Sessions : ReadError(s)
    \/ \E s \in Sessions : WriteDone(s)
    \/ \E s \in Sessions : WriteError(s)
\* the ECU with two clients, from the moment it serves
SpecTwo == InitTwo /\ [][NextTwo]_vars

\* ------------------------------------------------------- boot scenarios
\* the files g_executable_path (argv[0]) may name when the process starts
ExecFiles == { NoFile, File(<< >>), File(RunningImage) }
\* the stores the process may find when it starts
BootStores ==
    InitialStores \cup { StoreWith(DigestOf(<< >>)) }
\* run_boot_sequence has returned in this run of the process
BootReturned == pc = "while" /\ g_ecu_state \in {"APPLICATION", "BRICKED"}
\* calculate_file_hash failed on a file that exists
HashFault ==
    loaded /\ golden_hash_opt # nullopt /\ fs_exec # NoFile
           /\ calculated_hash_opt = nullopt
\* main() has started the server and enters its loop in BOOT
InitBoot ==
    /\ pc = "while"
    /\ g_ecu_state = "BOOT"
    /\ g_running = TRUE
    /\ g_doip_server = TRUE
    /\ server_thread = "running"
    /\ io_stopped = FALSE
    /\ nvram_file \in BootStores
    /\ m_data = NoData
    /\ loaded = FALSE
    /\ golden_hash_opt = nullopt
    /\ calculated_hash_opt = nullopt
    /\ boot_log = << >>
    /\ fs_exec \in ExecFiles
    /\ exec_perm = TRUE
    /\ fs_update = NoFile
    /\ conn = [s \in Sessions |-> "free"]
    /\ pending = [s \in Sessions |-> << >>]
    /\ m_received_header = [s \in Sessions |-> NoHeader]
    /\ m_payload = [s \in Sessions |-> << >>]
    /\ m_update_file = [s \in Sessions |-> ClosedStream]
    /\ m_firmware_file_size = [s \in Sessions |-> U32(0)]
    /\ m_bytes_received = [s \in Sessions |-> U32(0)]
    /\ n_rx = [s \in Sessions |-> 0]
    /\ sent_chunks = [s \in Sessions |-> << >>]
\* The process is ended and started again on the files as they are: the
\* globals are constructed anew (g_nvram with an empty map), main() starts
\* the server and enters its loop in BOOT.
Restart ==
    /\ BootReturned
    /\ Len(boot_log) + 1 < MaxBoots
    /\ boot_log' = Append(boot_log, [outcome |-> g_ecu_state,
                                     loaded |-> loaded,
                                     hash_fault |-> HashFault])
    /\ pc' = "while"
    /\ g_ecu_state' = "BOOT"
    /\ g_running' = TRUE
    /\ g_doip_server' = TRUE
    /\ server_thread' = "running"
    /\ io_stopped' = FALSE
    /\ m_data' = NoData
    /\ loaded' = FALSE
    /\ golden_hash_opt' = nullopt
    /\ calculated_hash_opt' = nullopt
    /\ conn' = [s \in Sessions |-> "free"]
    /\ pending' = [s \in Sessions |-> << >>]
    /\ m_received_header' = [s \in Sessions |-> NoHeader]
    /\ m_payload' = [s \in Sessions |-> << >>]
    /\ m_update_file' = [s \in Sessions |-> ClosedStream]
    /\ m_firmware_file_size' = [s \in Sessions |-> U32(0)]
    /\ m_bytes_received' = [s \in Sessions |-> U32(0)]
    /\ n_rx' = [s \in Sessions |-> 0]
    /\ sent_chunks' = [s \in Sessions |-> << >>]
    /\ UNCHANGED <<nvram_file, fileVars>>
NextBoot ==
    \/ MainBoot
    \/ BootVerify
    \/ BootFinish
    \/ run_application_mode
    \/ MainBricked
    \/ MainLoopExit
    \/ Restart
\* the boot handler over the stores and executables, the process started
\* MaxBoots times
BootSpec == InitBoot /\ [][NextBoot]_vars

\* ------------------------------------------- two clients in one update
\* HeaderRead and PayloadRead on the frames of a scenario
HeaderReadFrom(s, frames) ==
    /\ HeaderRead(s)
    /\ \E f \in frames :
          m_received_header'[s] =
             DecodeHeader(HeaderBytes(f.ver, f.inv, f.ptype, Len(f.payload)))
PayloadReadFrom(s, frames) ==
    /\ PayloadRead(s)
    /\ \E f \in frames : m_payload'[s] = f.payload
\* the requests of two clients that both run an update: a download of one
\* byte, its chunk, and the exit declaring the digest of that byte or of
\* the empty file
RaceFrames ==
    { Frame(PROTOCOL_VERSION, Inverse8(PROTOCOL_VERSION), DIAGNOSTIC, p) :
        p \in { <<UDS_REQUEST_DOWNLOAD, 0, 68, 0, 0, 0, 0, 0, 0, 1>>,
                <<UDS_TRANSFER_DATA, 1, 1>>,
                <<UDS_REQUEST_TRANSFER_EXIT>> \o DigestOf(<<1>>),
                <<UDS_REQUEST_TRANSFER_EXIT>> \o DigestOf(<< >>) } }
\* the ECU serving, in UPDATE_PENDING: an earlier client has entered the
\* programming session and has disconnected
InitRace ==
    /\ pc = "while"
    /\ g_ecu_state = "UPDATE_PENDING"
    /\ g_running = TRUE
    /\ g_doip_server = TRUE
    /\ server_thread = "running"
    /\ io_stopped = FALSE
    /\ nvram_file = StoreWith(DigestOf(RunningImage))
    /\ m_data = ParseLines(NoData, nvram_file[1])
    /\ loaded = TRUE
    /\ golden_hash_opt = Some(DigestOf(RunningImage))
    /\ calculated_hash_opt = Some(DigestOf(RunningImage))
    /\ boot_log = << >>
    /\ fs_exec = File(RunningImage)
    /\ exec_perm = TRUE
    /\ fs_update = NoFile
    /\ conn = [s \in Sessions |-> "free"]
    /\ pending = [s \in Sessions |-> << >>]
    /\ m_received_header = [s \in Sessions |-> NoHeader]
    /\ m_payload = [s \in Sessions |-> << >>]
    /\ m_update_file = [s \in Sessions |-> ClosedStream]
    /\ m_firmware_file_size = [s \in Sessions |-> U32(0)]
    /\ m_bytes_received = [s \in Sessions |-> U32(0)]
    /\ n_rx = [s \in Sessions |-> 0]
    /\ sent_chunks = [s \in Sessions |-> << >>]
NextRace ==
    \/ MainUpdatePending
    \/ MainLoopExit
    \/ stop_network_server
    \/ MainReturn
    \/ handle_signal
    \/ ServerThreadExit
    \/ \E s \in OneClient : Accept(s)
    \/ AcceptSecond
    \/ \E s \in Sessions : HeaderReadFrom(s, RaceFrames)
    \/ \E s \in Sessions : PayloadReadFrom(s, RaceFrames)
    \/ \E s \in Sessions : ReadError(s)
    \/ \E s \in Sessions : WriteDone(s)
    \/ \E s \in Sessions : WriteError(s)
\* two clients that both run an update on the ECU in UPDATE_PENDING
SpecRace == InitRace /\ [][NextRace]_vars

\* ------------------------------------------- a client after an aborted one
\* the requests of a client that abandons its download and of the client
\* that follows it: a download of one byte or of none, the chunk, and the
\* exit declaring the digest of that byte or of the empty file
RecoverFrames ==
    { Frame(PROTOCOL_VERSION, Inverse8(PROTOCOL_VERSION), DIAGNOSTIC, p) :
        p \in { <<UDS_REQUEST_DOWNLOAD, 0, 68, 0, 0, 0, 0, 0, 0, 1>>,
                <<UDS_REQUEST_DOWNLOAD, 0, 68, 0, 0, 0, 0, 0, 0, 0>>,
                <<UDS_TRANSFER_DATA, 1, 1>>,
                <<UDS_REQUEST_TRANSFER_EXIT>> \o DigestOf(<<1>>),
                <<UDS_REQUEST_TRANSFER_EXIT>> \o DigestOf(<< >>) } }
\* what an earlier download that was abandoned left at update.bin: nothing
\* when there was none, else the chunk it had written
Leftovers == { NoFile, File(<<0>>) }
\* the ECU serving, in UPDATE_PENDING, with what earlier clients left
InitRecover ==
    /\ pc = "while"
    /\ g_ecu_state = "UPDATE_PENDING"
    /\ g_running = TRUE
    /\ g_doip_server = TRUE
    /\ server_thread = "running"
    /\ io_stopped = FALSE
    /\ nvram_file = StoreWith(DigestOf(RunningImage))
    /\ m_data = ParseLines(NoData, nvram_file[1])
    /\ loaded = TRUE
    /\ golden_hash_opt = Some(DigestOf(RunningImage))
    /\ calculated_hash_opt = Some(DigestOf(RunningImage))
    /\ boot_log = << >>
    /\ fs_exec = File(RunningImage)
    /\ exec_perm = TRUE
    /\ fs_update \in Leftovers
    /\ conn = [s \in Sessions |-> "free"]
    /\ pending = [s \in Sessions |-> << >>]
    /\ m_received_header = [s \in Sessions |-> NoHeader]
    /\ m_payload = [s \in Sessions |-> << >>]
    /\ m_update_file = [s \in Sessions |-> ClosedStream]
    /\ m_firmware_file_size = [s \in Sessions |-> U32(0)]
    /\ m_bytes_received = [s \in Sessions |-> U32(0)]
    /\ n_rx = [s \in Sessions |-> 0]
    /\ sent_chunks = [s \in Sessions |-> << >>]
\* start_accept, the completion handler, for a client that connects after
\* the first one has gone: the end of the first connection is handled
\* before any request of the second is read
AcceptAfterEnd ==
    \E s \in Sessions \ OneClient :
       /\ \A x \in OneClient : conn[x] = "closed"
       /\ Accept(s)
NextRecover ==
    \/ MainUpdatePending
    \/ MainLoopExit
    \/ stop_network_server
    \/ MainReturn
    \/ handle_signal
    \/ ServerThreadExit
    \/ \E s \in OneClient : Accept(s)
    \/ AcceptAfterEnd
    \/ \E s \in Sessions : HeaderReadFrom(s, RecoverFrames)
    \/ \E s \in Sessions : PayloadReadFrom(s, RecoverFrames)
    \/ \E s \in Sessions : ReadError(s)
    \/ \E s \in Sessions : WriteDone(s)
    \/ \E s \in Sessions : WriteError(s)
\* one client after the other on the ECU in UPDATE_PENDING
SpecRecover == InitRecover /\ [][NextRecover]_vars

\* The main thread is scheduled: each of its steps that stays possible is
\* taken; the server thread returns from run() once the io_context is stopped.
FairSpec ==
    /\ Spec
    /\ WF_vars(start_network_server)
    /\ WF_vars(MainBoot)
    /\ WF_vars(BootVerify)
    /\ WF_vars(BootFinish)
    /\ WF_vars(MainBricked)
    /\ WF_vars(MainLoopExit)
    /\ WF_vars(stop_network_server)
    /\ WF_vars(MainReturn)
    /\ WF_vars(ServerThreadExit)

\* ------------------------------------------------------------- properties
\* session s dispatches a frame in this step: process_message runs on it
Dispatched(s) == n_rx'[s] = n_rx[s] + 1
\* the frame dispatched is a Diagnostic frame with service id sid
Service(s, sid) ==
    /\ Dispatched(s)
    /\ m_received_header'[s].payload_type = DIAGNOSTIC
    /\ m_payload'[s] # << >>
    /\ m_payload'[s][1] = sid
\* the response writes among the operations of a session
Responses(ops) == SelectSeq(ops, LAMBDA op : op.kind = "write")
\* the dispatch issued no response and the session reads the next header
SilentlyDropped(s) ==
    /\ Responses(pending'[s]) = << >>
    /\ pending'[s] = <<ReadHeaderOp>>
    /\ conn'[s] = "open"
\* the writes of a Diagnostic response frame with this payload, as it is on
\* the wire
DiagnosticResponse(payload) ==
    { [kind |-> "write",
       header |-> HeaderBytes(PROTOCOL_VERSION, Inverse8(PROTOCOL_VERSION), DIAGNOSTIC,
                              Len(payload)),
       payload |-> payload,
       sent |-> b] : b \in BOOLEAN }
\* the only operation of session s after the step is one of these writes
AnsweredWith(s, writes) == Len(pending'[s]) = 1 /\ pending'[s][1] \in writes

\* C1: the executable file changes, and update.bin leaves its path, only in
\* a step that dispatches a RequestTransferExit (0x37) whose bytes after the
\* service id equal the digest string of the closed update.bin; the
\* executable then holds exactly that content.
C1_ReplacedOnlyByMatchingExit ==
    [][(fs_exec' # fs_exec \/ (fs_update # NoFile /\ fs_update' = NoFile)) =>
         \E s \in Sessions :
            LET closed == StreamClose(m_update_file[s], fs_update)[2]
            IN  /\ Service(s, UDS_REQUEST_TRANSFER_EXIT)
                /\ closed # NoFile
                /\ Tail(m_payload'[s]) = DigestOf(closed[1])
                /\ fs_exec' = closed]_vars
\* C1 witness: the executable was replaced by a two-byte image whose digest
\* the last request of a session declared.
C1_Replaced ==
    /\ fs_exec = File(<<0, 1>>)
    /\ exec_perm = FALSE
    /\ fs_update = NoFile
    /\ \E s \in Sessions :
          m_payload[s] = <<UDS_REQUEST_TRANSFER_EXIT>> \o DigestOf(<<0, 1>>)

\* C2: once g_ecu_state is BRICKED no step (frame, poll of the main loop,
\* signal) makes it anything else.
C2_BrickedTerminal ==
    [][g_ecu_state = "BRICKED" => g_ecu_state' = "BRICKED"]_vars

\* the four checks of the boot handler, on the result of load, the map it
\* filled and the digest string it calculated
BootPassed(ld, data, calculated) ==
    /\ ld
    /\ GOLDEN_KEY \in DOMAIN data
    /\ calculated # nullopt
    /\ calculated[1] = data[GOLDEN_KEY]
\* C3: the boot handler, entered in BOOT, stores APPLICATION if and only if
\* the store loaded, the golden digest key is present, hashing the
\* executable succeeded and the calculated digest string (the digest of the
\* executable file) equals the golden one; in every other case it stores
\* BRICKED.
C3_BootOutcome ==
    [][/\ (pc = "while" /\ pc' = "BOOT") => g_ecu_state = "BOOT"
       /\ (pc = "BOOT" /\ pc' # "BOOT") =>
             /\ calculated_hash_opt' # nullopt =>
                   fs_exec # NoFile /\ calculated_hash_opt' = Some(DigestOf(fs_exec[1]))
             /\ IF BootPassed(loaded', m_data', calculated_hash_opt')
                THEN pc' = "boot_post"
                ELSE pc' = "while" /\ g_ecu_state' = "BRICKED"
       /\ (pc = "boot_post" /\ pc' # "boot_post") =>
             /\ BootPassed(loaded, m_data, calculated_hash_opt)
             /\ g_ecu_state' = "APPLICATION"
             /\ pc' = "while"]_vars
\* C3 witness: the boot handler has finished with APPLICATION, the golden
\* digest of the store being the digest of the executable.
C3_BootedToApplication ==
    /\ pc = "while"
    /\ g_ecu_state = "APPLICATION"
    /\ loaded
    /\ golden_hash_opt = Some(DigestOf(RunningImage))
    /\ calculated_hash_opt = golden_hash_opt

\* C4: a RoutineControl with routine id 0xFF00 dispatched in APPLICATION makes
\* the state UPDATE_PENDING, and the session then has exactly one operation:
\* the write of a Diagnostic frame whose payload is 0x71 followed by the
\* request's bytes after the service id.
C4_EnterProgrammingSession ==
    [][\A s \in Sessions :
          (/\ Service(s, UDS_ROUTINE_CONTROL)
           /\ g_ecu_state = "APPLICATION"
           /\ Len(m_payload'[s]) >= 4
           /\ RoutineId(m_payload'[s]) = UDS_ENTER_PROGRAMMING_SESSION)
          => /\ g_ecu_state' = "UPDATE_PENDING"
             /\ AnsweredWith(s, DiagnosticResponse(
                                     <<UDS_ROUTINE_CONTROL + POSITIVE_RESPONSE>>
                                     \o Tail(m_payload'[s])))]_vars

\* C5: a RoutineControl whose routine id is not 0xFF00, or that is dispatched
\* in a state other than APPLICATION, gets no response and leaves the state
\* as it is, the session reading the next header; the state becomes
\* UPDATE_PENDING only from APPLICATION.
C5_RoutineControlRejected ==
    [][/\ \A s \in Sessions :
            (/\ Service(s, UDS_ROUTINE_CONTROL)
             /\ \/ g_ecu_state # "APPLICATION"
                \/ (/\ Len(m_payload'[s]) >= 4
                    /\ RoutineId(m_payload'[s]) # UDS_ENTER_PROGRAMMING_SESSION))
            => SilentlyDropped(s) /\ g_ecu_state' = g_ecu_state
       /\ (g_ecu_state # "UPDATE_PENDING" /\ g_ecu_state' = "UPDATE_PENDING")
            => g_ecu_state = "APPLICATION"]_vars

\* C6: a RequestDownload dispatched while the state is not UPDATE_PENDING
\* gets no response, leaves update.bin and the stream of the session as they
\* are (nothing opened or truncated), leaves m_firmware_file_size,
\* m_bytes_received and the state as they are, and the session reads the
\* next header.
C6_DownloadOutsideUpdate ==
    [][\A s \in Sessions :
          (Service(s, UDS_REQUEST_DOWNLOAD) /\ g_ecu_state # "UPDATE_PENDING")
          => /\ SilentlyDropped(s)
             /\ fs_update' = fs_update
             /\ m_update_file'[s] = m_update_file[s]
             /\ m_firmware_file_size'[s] = m_firmware_file_size[s]
             /\ m_bytes_received'[s] = m_bytes_received[s]
             /\ g_ecu_state' = g_ecu_state]_vars
\* C6 witness: the only frame a session has dispatched is a full-length
\* RequestDownload, the state is APPLICATION, and the session is reading the
\* next header with its stream closed.
C6_DownloadDroppedInApplication ==
    \E s \in Sessions :
       /\ n_rx[s] = 1
       /\ m_received_header[s].payload_type = DIAGNOSTIC
       /\ m_payload[s] = <<UDS_REQUEST_DOWNLOAD, 0, 68, 0, 0, 0, 0, 0, 0, 3>>
       /\ g_ecu_state = "APPLICATION"
       /\ pending[s] = <<ReadHeaderOp>>
       /\ ~m_update_file[s].open
       /\ fs_update = NoFile

\* C7: every RequestDownload that is answered leaves update.bin empty with
\* nothing buffered for it, m_bytes_received 0 and m_firmware_file_size the
\* big-endian value of payload bytes 6..9, also when the stream of the
\* session was still open from an earlier RequestDownload.
C7_DownloadStartsEmpty ==
    [][\A s \in Sessions :
          (Service(s, UDS_REQUEST_DOWNLOAD) /\ Responses(pending'[s]) # << >>)
          => /\ fs_update' = File(<< >>)
             /\ m_update_file'[s].buf = << >>
             /\ m_bytes_received'[s] = U32(0)
             /\ m_firmware_file_size'[s] = DeclaredSize(m_payload'[s])]_vars

\* C8: a TransferData dispatched while the state is not UPDATE_PENDING, or
\* while the stream of the session is not open, writes nothing (update.bin
\* and the stream stay as they are), leaves m_bytes_received as it is, gets
\* no response, and the session reads the next header.
C8_TransferOutsideDownload ==
    [][\A s \in Sessions :
          (/\ Service(s, UDS_TRANSFER_DATA)
           /\ (g_ecu_state # "UPDATE_PENDING" \/ ~m_update_file[s].open))
          => /\ SilentlyDropped(s)
             /\ fs_update' = fs_update
             /\ m_update_file'[s] = m_update_file[s]
             /\ m_bytes_received'[s] = m_bytes_received[s]]_vars
\* C8 witness: in UPDATE_PENDING a session whose second frame was a
\* TransferData carrying one byte has no stream open, update.bin does not
\* exist, and the session is reading the next header.
C8_TransferDroppedWithoutDownload ==
    \E s \in Sessions :
       /\ n_rx[s] = 2
       /\ m_received_header[s].payload_type = DIAGNOSTIC
       /\ m_payload[s] = <<UDS_TRANSFER_DATA, 1, 1>>
       /\ g_ecu_state = "UPDATE_PENDING"
       /\ ~m_update_file[s].open
       /\ m_bytes_received[s] = U32(0)
       /\ fs_update = NoFile
       /\ pending[s] = <<ReadHeaderOp>>

\* C9: when a session's RequestTransferExit passes the gate, the closed
\* update.bin holds the chunk bytes of the TransferData requests answered
\* since the answered RequestDownload, in arrival order, and
\* m_bytes_received is their number; every TransferData that passes the gate
\* is answered with exactly one Diagnostic frame 0x76, block counter.
C9_StagedIsWhatWasSent ==
    [][\A s \in Sessions :
          /\ (Service(s, UDS_REQUEST_TRANSFER_EXIT) /\ TransferExitGate(s))
             => /\ StreamClose(m_update_file[s], fs_update)[2] = File(sent_chunks[s])
                /\ m_bytes_received[s] = U32(Len(sent_chunks[s]))
          /\ (Service(s, UDS_TRANSFER_DATA) /\ TransferDataGate(s))
             => /\ Len(m_payload'[s]) >= 2
                /\ AnsweredWith(s, DiagnosticResponse(
                                        <<UDS_TRANSFER_DATA + POSITIVE_RESPONSE,
                                          m_payload'[s][2]>>))]_vars

\* C10: in every state, for every session, m_bytes_received is at most
\* m_firmware_file_size.
C10_ReceivedWithinDeclared ==
    \A s \in Sessions : U32Leq(m_bytes_received[s], m_firmware_file_size[s])

\* the response to a matching RequestTransferExit (the only response with a
\* one-byte payload) is among the operations of session s
ExitAnswered(s) ==
    \E i \in DOMAIN pending[s] :
       /\ pending[s][i].kind = "write"
       /\ WireLength(pending[s][i].header) = U32(1)
\* C11: on one session, a RequestDownload whose file opens and every
\* TransferData with a block counter sent during the download are answered;
\* a RequestTransferExit that is answered leaves the executable holding
\* exactly the chunk bytes the client sent, with the io_context stopped; and
\* from then on the process eventually terminates.
C11_ScenarioD ==
    /\ [][\A s \in Sessions :
             /\ (/\ Service(s, UDS_REQUEST_DOWNLOAD)
                 /\ RequestDownloadGate(s, m_payload'[s])
                 /\ m_update_file'[s].open)
                => Responses(pending'[s]) # << >>
             /\ (/\ Service(s, UDS_TRANSFER_DATA)
                 /\ TransferDataGate(s)
                 /\ Len(m_payload'[s]) >= 2)
                => Responses(pending'[s]) # << >>
             /\ (Service(s, UDS_REQUEST_TRANSFER_EXIT) /\ Responses(pending'[s]) # << >>)
                => /\ fs_exec' = File(sent_chunks[s])
                   /\ io_stopped'
                   /\ ~g_running']_vars
    /\ \A s \in Sessions : ExitAnswered(s) ~> (pc = "done" /\ io_stopped)

\* C12: when a RequestTransferExit matches and update.bin is renamed over
\* the executable, the 0x77 response has already been handed to the socket:
\* the write issued by the step is a Diagnostic frame with payload 0x77 that
\* the socket took before the io_context was stopped.
C12_AnsweredBeforeApplied ==
    [][\A s \in Sessions :
          (/\ Service(s, UDS_REQUEST_TRANSFER_EXIT)
           /\ (fs_exec' # fs_exec \/ io_stopped' # io_stopped
                 \/ (fs_update # NoFile /\ fs_update' = NoFile)))
          => /\ AnsweredWith(s, DiagnosticResponse(
                                   <<UDS_REQUEST_TRANSFER_EXIT + POSITIVE_RESPONSE>>))
             /\ pending'[s][1].sent]_vars

\* C13: a RequestTransferExit that passes the gate and whose declared digest
\* differs from the digest of the closed update.bin issues no response,
\* leaves the state UPDATE_PENDING, leaves update.bin in place with the
\* content it was closed with, leaves the executable and its permissions as
\* they are, and neither stops the io_context nor changes g_running.
C13_MismatchLeavesAll ==
    [][\A s \in Sessions :
          LET closed == StreamClose(m_update_file[s], fs_update)[2]
          IN  (/\ Service(s, UDS_REQUEST_TRANSFER_EXIT)
               /\ TransferExitGate(s)
               /\ closed # NoFile
               /\ Tail(m_payload'[s]) # DigestOf(closed[1]))
              => /\ Responses(pending'[s]) = << >>
                 /\ g_ecu_state' = "UPDATE_PENDING"
                 /\ fs_update' = closed
                 /\ fs_exec' = fs_exec
                 /\ exec_perm' = exec_perm
                 /\ io_stopped' = io_stopped
                 /\ g_running' = g_running]_vars
\* C13 witness: the third frame of a session was a RequestTransferExit
\* declaring the digest of a one-byte image while update.bin is empty; the
\* state is UPDATE_PENDING, update.bin is on disk, the executable is the
\* running image, the server runs and g_running is set.
C13_MismatchedExit ==
    \E s \in Sessions :
       /\ n_rx[s] = 3
       /\ m_received_header[s].payload_type = DIAGNOSTIC
       /\ m_payload[s] = <<UDS_REQUEST_TRANSFER_EXIT>> \o DigestOf(<<1>>)
       /\ fs_update = File(<< >>)
       /\ ~m_update_file[s].open
       /\ pending[s] = << >>
       /\ g_ecu_state = "UPDATE_PENDING"
       /\ fs_exec = File(RunningImage)
       /\ exec_perm
       /\ g_running
       /\ ~io_stopped

\* C14: every dispatched frame other than a RequestTransferExit that is
\* answered (the digest matched and the update is applied) leaves the
\* session on its connection with one operation outstanding: the read of
\* the next header, or the response write whose completion issues it.  In
\* particular the session reads on after a RequestTransferExit whose digest
\* does not match.
C14_KeepsReading ==
    [][\A s \in Sessions :
          (/\ Dispatched(s)
           /\ ~(Service(s, UDS_REQUEST_TRANSFER_EXIT) /\ Responses(pending'[s]) # << >>))
          => /\ conn'[s] = "open"
             /\ Len(pending'[s]) = 1
             /\ pending'[s][1].kind \in {"read_header", "write"}]_vars

\* the writes of the Vehicle Announcement frame carrying the identifier
VehicleAnnouncement ==
    { [kind |-> "write",
       header |-> HeaderBytes(PROTOCOL_VERSION, Inverse8(PROTOCOL_VERSION),
                              VEHICLE_ANNOUNCEMENT, Len(VIN)),
       payload |-> VIN,
       sent |-> b] : b \in BOOLEAN }
\* C15: a Vehicle Identification Request is answered, whatever the ECU
\* state, with exactly one frame of payload type 0x0005 whose payload on the
\* wire is the identifier string, and its handling changes neither the ECU
\* state nor the transfer context of the session nor update.bin.
C15_VehicleIdAnswered ==
    [][\A s \in Sessions :
          (/\ Dispatched(s)
           /\ m_received_header'[s].payload_type = VEHICLE_ID_REQUEST)
          => /\ AnsweredWith(s, VehicleAnnouncement)
             /\ g_ecu_state' = g_ecu_state
             /\ m_update_file'[s] = m_update_file[s]
             /\ m_firmware_file_size'[s] = m_firmware_file_size[s]
             /\ m_bytes_received'[s] = m_bytes_received[s]
             /\ fs_update' = fs_update]_vars

\* the frame dispatched is a Diagnostic request too short for its service
TooShort(s) ==
    \/ Service(s, UDS_ROUTINE_CONTROL) /\ Len(m_payload'[s]) < 4
    \/ Service(s, UDS_REQUEST_DOWNLOAD) /\ Len(m_payload'[s]) < 10
    \/ Service(s, UDS_TRANSFER_DATA) /\ Len(m_payload'[s]) < 2
\* C16: a RoutineControl of fewer than 4 bytes, a RequestDownload of fewer
\* than 10 bytes and a TransferData of fewer than 2 bytes are silently
\* dropped: no response is issued, the session reads the next header,
\* nothing is written to update.bin or to its stream, and m_bytes_received
\* and the ECU state are unchanged.
C16_TooShortDropped ==
    [][\A s \in Sessions :
          TooShort(s)
          => /\ SilentlyDropped(s)
             /\ fs_update' = fs_update
             /\ m_update_file'[s] = m_update_file[s]
             /\ m_bytes_received'[s] = m_bytes_received[s]
             /\ g_ecu_state' = g_ecu_state]_vars

\* the verdict of run_boot_sequence in a process started on this store and
\* this executable
RebootVerdict(store, exec, readable) ==
    LET data == ParseLines(NoData, store[1])
    IN  BootVerdict(TRUE, get_string(data, GOLDEN_KEY),
                    calculate_file_hash(exec, readable))
\* C17: no dispatch of a frame, the one that applies an update included,
\* changes nvram.dat or the map loaded from it; so when an update has
\* replaced the executable and the golden digest of the store is not the
\* digest of the new executable, boot verification run again on that store
\* and that executable decides BRICKED.
C17_StoreUntouchedByUpdate ==
    [][\A s \in Sessions :
          Dispatched(s)
          => /\ nvram_file' = nvram_file
             /\ m_data' = m_data
             /\ (/\ fs_exec' # fs_exec
                 /\ nvram_file' # NoFile
                 /\ get_string(ParseLines(NoData, nvram_file'[1]), GOLDEN_KEY)
                       # Some(DigestOf(fs_exec'[1])))
                => \A readable \in BOOLEAN :
                      RebootVerdict(nvram_file', fs_exec', readable) = "BRICKED"]_vars
\* C17 witness: an update has replaced the executable by a two-byte image
\* while the store still holds the digest of the image the process was
\* started from.
C17_UpdatedUnderOldGolden ==
    /\ fs_exec = File(<<0, 1>>)
    /\ fs_update = NoFile
    /\ io_stopped
    /\ ~g_running
    /\ nvram_file = StoreWith(DigestOf(RunningImage))
    /\ get_string(m_data, GOLDEN_KEY) = Some(DigestOf(RunningImage))

\* C18: once an update has been applied (the executable is no longer the
\* file the process was started from) and before the process terminates,
\* the executable file has its executable permission bits set.
C18_ExecutableAfterUpdate ==
    (pc = "done" /\ fs_exec # File(RunningImage)) => exec_perm

\* C19: a read or a write that completes with an error (or end of stream)
\* on session s ends that session only: s has no operation left and its
\* connection is closed, and stays so; the ECU state, g_running and the
\* io_context are as before; and every other session keeps its connection,
\* its pending operation, its stream on update.bin, its declared size and
\* its count of bytes received.
C19_FailureIsLocal ==
    [][\A s \in Sessions :
          /\ (ReadError(s) \/ WriteError(s))
             => /\ pending'[s] = << >>
                /\ conn'[s] = "closed"
                /\ g_ecu_state' = g_ecu_state
                /\ g_running' = g_running
                /\ io_stopped' = io_stopped
                /\ server_thread' = server_thread
                /\ \A x \in Sessions \ {s} :
                      /\ conn'[x] = conn[x]
                      /\ pending'[x] = pending[x]
                      /\ m_update_file'[x] = m_update_file[x]
                      /\ m_firmware_file_size'[x] = m_firmware_file_size[x]
                      /\ m_bytes_received'[x] = m_bytes_received[x]
          /\ conn[s] = "closed" => (conn'[s] = "closed" /\ pending'[s] = << >>)]_vars
\* C19 witness: the first session was served and then failed while the
\* server runs; the second session is in a transfer, one byte received,
\* with an operation pending on its open connection.
C19_OneFailedOtherServed ==
    /\ conn[1] = "closed"
    /\ pending[1] = << >>
    /\ n_rx[1] >= 1
    /\ pc = "while"
    /\ ~io_stopped
    /\ conn[2] = "open"
    /\ Len(pending[2]) = 1
    /\ m_update_file[2].open
    /\ m_bytes_received[2] = U32(1)
    /\ g_ecu_state = "UPDATE_PENDING"

\* C20: when the process is started twice on the same executable file and
\* the store file is changed by nothing but the boot handler itself (which
\* creates it when it is absent), and both runs meet the same I/O conditions
\* (the store loads or not, the executable can be hashed or not), the boot
\* handler decides the same state, APPLICATION or BRICKED, in both runs.
C20_BootIdempotent ==
    (boot_log # << >> /\ BootReturned)
    => LET prev == boot_log[Len(boot_log)]
       IN  (prev.loaded = loaded /\ prev.hash_fault = HashFault)
           => g_ecu_state = prev.outcome
\* C20 witness: the store was absent and the executable an empty file; the
\* first run created the store and decided APPLICATION, and the second run,
\* on the store the first one wrote, has decided APPLICATION again.
C20_SecondBootOnCreatedStore ==
    /\ Len(boot_log) = 1
    /\ boot_log[1].outcome = "APPLICATION"
    /\ BootReturned
    /\ g_ecu_state = "APPLICATION"
    /\ fs_exec = File(<< >>)
    /\ nvram_file = File(SavedLines(DefaultNvram(NoData)))

\* one string is the other cut short
IsPrefix(a, b) == Len(a) <= Len(b) /\ SubSeq(b, 1, Len(a)) = a
\* the declared digest is not the calculated one, but differs from it only
\* in the case of its letters, or lacks characters, or has extra ones
NearMiss(declared, calculated) ==
    /\ declared # calculated
    /\ \/ UpperCase(declared) = UpperCase(calculated)
       \/ IsPrefix(declared, calculated)
       \/ IsPrefix(calculated, declared)
\* C21: the digest calculate_file_hash returns is in lower-case hex and is
\* compared literally with the bytes of the request after the service id: a
\* RequestTransferExit that passes the gate and declares the digest of
\* update.bin in another letter case, cut short or with extra characters is
\* a mismatch: no response is issued, the executable is not replaced,
\* update.bin stays, and the server is not stopped.
C21_LiteralComparison ==
    [][\A s \in Sessions :
          LET closed == StreamClose(m_update_file[s], fs_update)[2]
          IN  (/\ Service(s, UDS_REQUEST_TRANSFER_EXIT)
               /\ TransferExitGate(s)
               /\ closed # NoFile
               /\ NearMiss(Tail(m_payload'[s]), DigestOf(closed[1])))
              => /\ \A i \in DOMAIN DigestOf(closed[1]) :
                       DigestOf(closed[1])[i] \in (48..57) \cup (97..102)
                 /\ Responses(pending'[s]) = << >>
                 /\ fs_exec' = fs_exec
                 /\ fs_update' = closed
                 /\ g_running' = g_running
                 /\ io_stopped' = io_stopped]_vars
\* C21 witness: update.bin holds the one byte sent and the request that
\* followed was a RequestTransferExit declaring its digest in upper case;
\* the executable is the running image and the server runs.
C21_UpperCaseDeclared ==
    \E s \in Sessions :
       /\ n_rx[s] = 4
       /\ m_payload[s] = <<UDS_REQUEST_TRANSFER_EXIT>> \o UpperCase(DigestOf(<<1>>))
       /\ fs_update = File(<<1>>)
       /\ fs_exec = File(RunningImage)
       /\ pending[s] = << >>
       /\ g_running
       /\ ~io_stopped


\* C22: in every reachable state each session has at most one asynchronous
\* operation outstanding, a header read, a payload read or a response
\* write; a session whose connection is not open has none.
C22_OneOperationOutstanding ==
    \A s \in Sessions :
       /\ Len(pending[s]) <= 1
       /\ conn[s] # "open" => pending[s] = << >>
\* C22 witness: a session has dispatched three frames and the response to
\* the third is its only outstanding operation.
C22_ResponseOutstanding ==
    \E s \in Sessions :
       /\ conn[s] = "open"
       /\ n_rx[s] = 3
       /\ Len(pending[s]) = 1
       /\ pending[s][1].kind = "write"

\* C23: in every reachable state, whatever the interleaving of the main
\* loop and the server thread, a session whose stream on update.bin is open
\* implies that the ECU state is UPDATE_PENDING.
C23_OpenOnlyInUpdatePending ==
    \A s \in Sessions : m_update_file[s].open => g_ecu_state = "UPDATE_PENDING"

\* C24: a RequestTransferExit that passes the gate leaves the stream of the
\* session closed, whether the digest matches, does not match or cannot be
\* calculated; a read or write that ends in an error leaves it closed; a
\* session whose connection is closed has no stream, and once no connection
\* is open update.bin and the executable are written no more.
C24_HandleClosed ==
    [][\A s \in Sessions :
          /\ (Service(s, UDS_REQUEST_TRANSFER_EXIT) /\ TransferExitGate(s))
             => ~m_update_file'[s].open
          /\ (ReadError(s) \/ WriteError(s)) => ~m_update_file'[s].open
          /\ conn'[s] = "closed" => m_update_file'[s] = ClosedStream
          /\ (\A x \in Sessions : conn[x] # "open")
             => (fs_update' = fs_update /\ fs_exec' = fs_exec)]_vars
\* C24 witness: a RequestTransferExit passed the gate and update.bin could
\* not be hashed: the stream is closed, update.bin is on disk and the
\* session reads the next header.
C24_ClosedAfterFailedHash ==
    \E s \in Sessions :
       /\ n_rx[s] = 3
       /\ m_payload[s] = <<UDS_REQUEST_TRANSFER_EXIT>> \o DigestOf(<< >>)
       /\ conn[s] = "open"
       /\ pending[s] = <<ReadHeaderOp>>
       /\ ~m_update_file[s].open
       /\ fs_update = File(<< >>)
       /\ g_ecu_state = "UPDATE_PENDING"

\* the frame dispatched is of a payload type other than 0x0004 and 0x8001,
\* or a Diagnostic frame with an empty payload or an unknown service id
Unrecognized(s) ==
    /\ Dispatched(s)
    /\ \/ m_received_header'[s].payload_type \notin {VEHICLE_ID_REQUEST, DIAGNOSTIC}
       \/ /\ m_received_header'[s].payload_type = DIAGNOSTIC
          /\ \/ m_payload'[s] = << >>
             \/ m_payload'[s][1] \notin {UDS_ROUTINE_CONTROL, UDS_REQUEST_DOWNLOAD,
                                        UDS_TRANSFER_DATA, UDS_REQUEST_TRANSFER_EXIT}
\* C25: a frame of a payload type other than 0x0004 and 0x8001, a
\* Diagnostic frame with an empty payload (dispatched from the header read,
\* without a payload read) and a Diagnostic frame with an unknown service id
\* issue no response and leave the session reading the next header; the ECU
\* state, the stream, the declared size, the count of bytes received,
\* update.bin and the executable are unchanged.
C25_UnrecognizedIgnored ==
    [][\A s \in Sessions :
          Unrecognized(s)
          => /\ SilentlyDropped(s)
             /\ (m_received_header'[s].payload_length = U32(0))
                   => (\E i \in DOMAIN pending[s] : pending[s][i].kind = "read_header")
             /\ g_ecu_state' = g_ecu_state
             /\ m_update_file'[s] = m_update_file[s]
             /\ m_firmware_file_size'[s] = m_firmware_file_size[s]
             /\ m_bytes_received'[s] = m_bytes_received[s]
             /\ fs_update' = fs_update
             /\ fs_exec' = fs_exec]_vars
\* C25 witness: during a transfer, with the stream open, the third frame
\* was a Diagnostic frame with the unknown service id 0x10, and the session
\* reads the next header.
C25_UnknownServiceInTransfer ==
    \E s \in Sessions :
       /\ n_rx[s] = 3
       /\ m_received_header[s].payload_type = DIAGNOSTIC
       /\ m_payload[s] = <<16>>
       /\ m_update_file[s].open
       /\ g_ecu_state = "UPDATE_PENDING"
       /\ conn[s] = "open"
       /\ pending[s] = <<ReadHeaderOp>>

\* C26: a RequestDownload that passes the gate on a session whose stream is
\* closed, and whose open of update.bin fails, is dropped: no response is
\* issued and the session reads the next header, the ECU state stays
\* UPDATE_PENDING, m_bytes_received is not reset, the stream stays closed
\* and update.bin is as it was.
C26_OpenFailureDropped ==
    [][\A s \in Sessions :
          (/\ Service(s, UDS_REQUEST_DOWNLOAD)
           /\ RequestDownloadGate(s, m_payload'[s])
           /\ ~m_update_file[s].open
           /\ ~m_update_file'[s].open)
          => /\ SilentlyDropped(s)
             /\ g_ecu_state' = "UPDATE_PENDING"
             /\ m_bytes_received'[s] = m_bytes_received[s]
             /\ fs_update' = fs_update]_vars
\* C26 witness: the second frame was a RequestDownload in UPDATE_PENDING
\* and update.bin could not be opened: the stream is closed and failed,
\* there is no update.bin, and the session reads the next header.
C26_OpenFailed ==
    \E s \in Sessions :
       /\ n_rx[s] = 2
       /\ m_payload[s] = <<UDS_REQUEST_DOWNLOAD, 0, 68, 0, 0, 0, 0, 0, 0, 1>>
       /\ g_ecu_state = "UPDATE_PENDING"
       /\ ~m_update_file[s].open
       /\ ~m_update_file[s].good
       /\ fs_update = NoFile
       /\ conn[s] = "open"
       /\ pending[s] = <<ReadHeaderOp>>

\* the header's inverse_protocol_version is the complement of its
\* protocol_version
WellFormed(hdr) == hdr.inverse_protocol_version = Inverse8(hdr.protocol_version)
\* C27: a frame is dispatched only when its header is well-formed; a frame
\* whose inverse_protocol_version is not the complement of protocol_version
\* causes no response, no change of the ECU state and no write to update.bin
\* or its stream.
C27_MalformedRejected ==
    [][\A s \in Sessions :
          (Dispatched(s) /\ ~WellFormed(m_received_header'[s]))
          => /\ Responses(pending'[s]) = << >>
             /\ g_ecu_state' = g_ecu_state
             /\ fs_update' = fs_update
             /\ m_update_file'[s] = m_update_file[s]]_vars

\* the service id of the request last read on session s
RequestSid(s) == IF m_payload[s] = << >> THEN 0 ELSE m_payload[s][1]
\* C28: every frame the server emits has protocol_version 0x02, its
\* complement 0xFD as inverse_protocol_version, a payload_length that is the
\* number of payload bytes, and payload type 0x0005 or 0x8001; the payload
\* of a Diagnostic response starts with the service id of the request it
\* answers plus 0x40, which is 0x71, 0x74, 0x76 or 0x77.
C28_EmittedWellFormed ==
    \A s \in Sessions :
       \A i \in DOMAIN pending[s] :
          LET op == pending[s][i]
          IN  op.kind = "write"
              => /\ op.header[1] = PROTOCOL_VERSION
                 /\ op.header[2] = Inverse8(PROTOCOL_VERSION)
                 /\ WireLength(op.header) = U32(Len(op.payload))
                 /\ WireType(op.header) \in {VEHICLE_ANNOUNCEMENT, DIAGNOSTIC}
                 /\ WireType(op.header) = VEHICLE_ANNOUNCEMENT
                       => m_received_header[s].payload_type = VEHICLE_ID_REQUEST
                 /\ WireType(op.header) = DIAGNOSTIC
                       => /\ m_received_header[s].payload_type = DIAGNOSTIC
                          /\ op.payload # << >>
                          /\ op.payload[1] = RequestSid(s) + POSITIVE_RESPONSE
                          /\ op.payload[1] \in {113, 116, 118, 119}

\* C29: nothing keeps two sessions apart on update.bin.  A RequestDownload
\* in UPDATE_PENDING on a session whose stream is closed is never refused
\* because another session has update.bin open: either the open fails and
\* the request is dropped, or update.bin is truncated and the request
\* answered, and the streams of the other sessions are left as they are.
\* RequestTransferExit hashes the file, not what the session sent: when the
\* file the close leaves differs from the bytes the session sent, an exit
\* declaring the digest of those bytes is a mismatch.  (The interleaving
\* in which this happens is the witness.)
C29_NoMutualExclusion ==
    [][\A s \in Sessions :
          /\ (/\ Service(s, UDS_REQUEST_DOWNLOAD)
              /\ g_ecu_state = "UPDATE_PENDING"
              /\ Len(m_payload'[s]) >= 10
              /\ ~m_update_file[s].open)
             => /\ \/ /\ m_update_file'[s].open
                      /\ fs_update' = File(<< >>)
                      /\ Responses(pending'[s]) # << >>
                   \/ /\ ~m_update_file'[s].open
                      /\ ~m_update_file'[s].good
                      /\ fs_update' = fs_update
                      /\ SilentlyDropped(s)
                /\ \A x \in Sessions \ {s} : m_update_file'[x] = m_update_file[x]
          /\ LET closed == StreamClose(m_update_file[s], fs_update)[2]
             IN  (/\ Service(s, UDS_REQUEST_TRANSFER_EXIT)
                  /\ TransferExitGate(s)
                  /\ closed # NoFile
                  /\ closed # File(sent_chunks[s])
                  /\ Tail(m_payload'[s]) = DigestOf(sent_chunks[s]))
                 => /\ Responses(pending'[s]) = << >>
                    /\ fs_exec' = fs_exec]_vars
\* C29 witness: session 1 has sent one byte and has update.bin open;
\* session 2 has had a RequestDownload answered and has update.bin open
\* too; the file that the close of session 1 leaves is not the byte
\* session 1 sent; and the RequestTransferExit of session 1 is arriving
\* (its header is read, its 5 payload bytes are awaited).
C29_ArtifactChangedByOther ==
    /\ g_ecu_state = "UPDATE_PENDING"
    /\ m_update_file[1].open
    /\ sent_chunks[1] = <<1>>
    /\ m_update_file[2].open
    /\ n_rx[2] >= 1
    /\ StreamClose(m_update_file[1], fs_update)[2] # File(sent_chunks[1])
    /\ StreamClose(m_update_file[1], fs_update)[2] # NoFile
    /\ pending[1] = <<ReadPayloadOp>>
    /\ m_received_header[1].payload_length = U32(5)
    /\ ~io_stopped

\* C30: a shutdown signal, at whatever point after main has registered the
\* handler (before the server exists, during boot, in APPLICATION, in
\* UPDATE_PENDING, in BRICKED), leaves the io_context stopped and g_running
\* cleared; and once that is so the process terminates: the main loop is
\* left, the join of the server thread returns and main returns.
C30_CooperativeShutdown ==
    /\ [][handle_signal => (io_stopped' /\ ~g_running')]_vars
    /\ (io_stopped /\ ~g_running) ~> (pc = "done")
\* the signal arrived before the server existed, the server was started
\* all the same, and main waits in the join for a thread that nothing stops
C30_JoinNeverReturns ==
    /\ pc = "stop_network_server"
    /\ ~g_running
    /\ g_ecu_state = "BOOT"
    /\ server_thread = "running"
    /\ ~io_stopped

\* the dispatch of session s issued a response
Answered(s) == Responses(pending'[s]) # << >>
\* the boot handler has run in this process and stored APPLICATION: its
\* four checks passed and it is past its last statement
BootCompleted ==
    /\ pc \notin {"start_network_server", "BOOT", "boot_post"}
    /\ BootPassed(loaded, m_data, calculated_hash_opt)
\* C31: whatever the interleaving of the server thread (started before the
\* boot handler) and the main loop, a step in which a RequestDownload is
\* answered positively, or in which a RequestTransferExit replaces the
\* executable, is taken only after the boot handler has run and stored
\* APPLICATION.
C31_UpdateOnlyAfterBoot ==
    [][(\E s \in Sessions :
           \/ /\ Service(s, UDS_REQUEST_DOWNLOAD)
              /\ Answered(s)
           \/ /\ Service(s, UDS_REQUEST_TRANSFER_EXIT)
              /\ fs_exec' # fs_exec)
        => BootCompleted]_vars

\* C32: once g_ecu_state is UPDATE_PENDING no step makes it BOOT,
\* APPLICATION or BRICKED; in particular the stores at the end of the boot
\* handler leave alone an UPDATE_PENDING that a RoutineControl stored while
\* the handler was running.
C32_UpdatePendingKept ==
    [][g_ecu_state = "UPDATE_PENDING" => g_ecu_state' = "UPDATE_PENDING"]_vars

\* C33: a step in which a RequestTransferExit stops the io_context or clears
\* g_running leaves the executable holding the content of the closed
\* update.bin, the one that was hashed, and update.bin gone from its path:
\* the shutdown is requested only if the rename succeeded, and a rename that
\* fails leaves the ECU running.
C33_ShutdownOnlyAfterRename ==
    [][\A s \in Sessions :
          (/\ Service(s, UDS_REQUEST_TRANSFER_EXIT)
           /\ \/ g_running /\ ~g_running'
              \/ ~io_stopped /\ io_stopped')
          => /\ fs_exec' = StreamClose(m_update_file[s], fs_update)[2]
             /\ fs_update' = NoFile]_vars

\* C34: a RequestTransferExit that passes the gate and does not replace the
\* executable leaves the stream of its session closed; while the stream of a
\* session is closed every TransferData and RequestTransferExit it
\* dispatches is dropped: no response is issued, update.bin, the executable
\* and the transfer context stay as they are, nothing is hashed (the state,
\* the session and the server are untouched) and the next header is read;
\* and the stream becomes open again only in a step that answers a
\* RequestDownload of that session positively.
C34_RejectedUntilNewDownload ==
    [][\A s \in Sessions :
          /\ (/\ Service(s, UDS_REQUEST_TRANSFER_EXIT)
              /\ TransferExitGate(s)
              /\ fs_exec' = fs_exec)
             => ~m_update_file'[s].open
          /\ (/\ ~m_update_file[s].open
              /\ \/ Service(s, UDS_TRANSFER_DATA)
                 \/ Service(s, UDS_REQUEST_TRANSFER_EXIT))
             => /\ SilentlyDropped(s)
                /\ UNCHANGED <<g_ecu_state, g_running, io_stopped, fileVars,
                               m_update_file, m_firmware_file_size,
                               m_bytes_received, sent_chunks>>
          /\ (~m_update_file[s].open /\ m_update_file'[s].open)
             => /\ Service(s, UDS_REQUEST_DOWNLOAD)
                /\ Answered(s)]_vars
\* C34 witness: the fourth request of a session, a TransferData, was
\* dropped: the session had been given a download (update.bin exists), its
\* stream is closed again, which only a RequestTransferExit whose hashing
\* failed does while leaving the session and the ECU running, and it reads
\* the next header.
C34_DroppedAfterFailedExit ==
    /\ g_ecu_state = "UPDATE_PENDING"
    /\ g_running
    /\ ~io_stopped
    /\ n_rx[1] = 4
    /\ conn[1] = "open"
    /\ m_payload[1] # << >>
    /\ m_payload[1][1] = UDS_TRANSFER_DATA
    /\ fs_update # NoFile
    /\ ~m_update_file[1].open
    /\ pending[1] = <<ReadHeaderOp>>

\* C35: a step in which a RequestTransferExit replaces the executable is
\* taken by a session whose m_bytes_received equals the m_firmware_file_size
\* its RequestDownload declared: an exit that arrives with the two
\* different replaces nothing.
C35_AppliedOnlyWhenComplete ==
    [][\A s \in Sessions :
          (Service(s, UDS_REQUEST_TRANSFER_EXIT) /\ fs_exec' # fs_exec)
          => m_bytes_received[s] = m_firmware_file_size[s]]_vars

\* the other sessions are gone: their connections are closed
Alone(s) == \A x \in Sessions \ {s} : conn[x] = "closed"
\* C36: the end of a session that holds update.bin open (after a
\* RequestDownload and TransferData, before any RequestTransferExit) leaves
\* g_ecu_state UPDATE_PENDING; and a session that comes after it, is given
\* one download, sends all the bytes it declared in well-formed chunks (its
\* stream has not failed) and then a RequestTransferExit with the digest of
\* those bytes has them, and nothing of the earlier session, staged and
\* renamed over the executable (or, when update.bin cannot be read for
\* hashing, has the exit dropped and the ECU left running).
C36_RecoveryAfterAbort ==
    [][\A s \in Sessions :
          /\ (/\ g_ecu_state = "UPDATE_PENDING"
              /\ m_update_file[s].open
              /\ ReadError(s))
             => g_ecu_state' = "UPDATE_PENDING"
          /\ (/\ Alone(s)
              /\ Service(s, UDS_REQUEST_TRANSFER_EXIT)
              /\ TransferExitGate(s)
              /\ m_update_file[s].good
              /\ m_bytes_received[s] = m_firmware_file_size[s]
              /\ Tail(m_payload'[s]) = DigestOf(sent_chunks[s]))
             => /\ StreamClose(m_update_file[s], fs_update)[2] = File(sent_chunks[s])
                /\ \/ /\ fs_exec' = File(sent_chunks[s])
                      /\ fs_update' = NoFile
                   \/ /\ SilentlyDropped(s)
                      /\ UNCHANGED <<g_running, io_stopped, fs_exec>>]_vars

\* session s dispatches a request of the kind the client sends: a
\* well-formed header, a vehicle identification request or one of the four
\* diagnostic services
ClientRequest(s) ==
    /\ Dispatched(s)
    /\ WellFormed(m_received_header'[s])
    /\ \/ m_received_header'[s].payload_type = VEHICLE_ID_REQUEST
       \/ \E sid \in {UDS_ROUTINE_CONTROL, UDS_REQUEST_DOWNLOAD, UDS_TRANSFER_DATA,
                      UDS_REQUEST_TRANSFER_EXIT} : Service(s, sid)
\* C37: the client blocks in a read of the response header after each
\* request, so each request it sends must be answered or have its
\* connection closed, whatever the ECU state: the step that dispatches a
\* request of the client issues a response, ends the session or stops the
\* io_context; it never just reads the next header of a connection it keeps
\* open.
C37_ClientNeverLeftWaiting ==
    [][\A s \in Sessions :
          ClientRequest(s) => \/ Answered(s)
                              \/ conn'[s] = "closed"
                              \/ io_stopped']_vars

\* the store NVRAMManager::create_default_nvram writes from an empty map
DefaultStore == File(SavedLines(DefaultNvram(NoData)))
\* C38: when nvram.dat is absent as the boot handler loads the store, load
\* succeeds exactly when the default store can be saved, and then nvram.dat
\* is the default store, whose golden digest is the digest of the empty
\* content; the handler then stores BRICKED for every executable that is
\* not empty (or missing or unreadable) and goes on to APPLICATION only
\* when the digest of the executable is the digest of the empty content.
\* load fails, and the handler stores BRICKED, only when nvram.dat was
\* absent and could not be written.
C38_BootWithoutStore ==
    [][(pc = "BOOT" /\ pc' # "BOOT") =>
          /\ ~loaded' => /\ nvram_file = NoFile
                         /\ nvram_file' = NoFile
                         /\ g_ecu_state' = "BRICKED"
          /\ nvram_file = NoFile =>
                /\ loaded' => /\ nvram_file' = DefaultStore
                              /\ get_string(m_data', GOLDEN_KEY) = Some(DigestOf(<< >>))
                              /\ golden_hash_opt' = Some(DigestOf(<< >>))
                /\ (fs_exec = NoFile \/ fs_exec[1] # << >>) =>
                      g_ecu_state' = "BRICKED" /\ pc' = "while"
                /\ pc' = "boot_post" =>
                      /\ fs_exec # NoFile
                      /\ DigestOf(fs_exec[1]) = DigestOf(<< >>)
                      /\ calculated_hash_opt' = Some(DigestOf(<< >>))]_vars
\* C38 witness: the first boot of the process found no store, created the
\* default one and stored BRICKED: the digest of the running one-byte image
\* is not the golden digest of the default store.
C38_DefaultStoreBricks ==
    /\ boot_log = << >>
    /\ pc = "while"
    /\ g_ecu_state = "BRICKED"
    /\ loaded
    /\ nvram_file = DefaultStore
    /\ fs_exec = File(RunningImage)
    /\ golden_hash_opt = Some(DigestOf(<< >>))
    /\ calculated_hash_opt = Some(DigestOf(RunningImage))
====
